---- MODULE Spec2Model ----
(***************************************************************************)
(* Model of the strategy decision engine and position bookkeeping of       *)
(* Sys_Mantis: the live decision path (src/trading_monitor.js) and the     *)
(* historical simulation loop (src/advanced_backtest.js).                  *)
(*                                                                         *)
(* JavaScript numbers that carry money, shares or ratios are modelled as   *)
(* exact rationals [n |-> numerator, d |-> denominator > 0] in lowest      *)
(* terms; prices and indicator readings are integers.                      *)
(***************************************************************************)
EXTENDS Integers, Sequences, FiniteSets, TLC

VARIABLES
    running,        \* which program is executing: "decide", "live" or "backtest"
    currentState,   \* trading_monitor.js: the global currentState object
    decision,       \* trading_monitor.js: the decision of the latest live cycle
    marketHours,    \* trading_monitor.js: what isMarketHours() returned in that cycle
    cycles,         \* trading_monitor.js: analysis cycles run since the program started
    bt,             \* advanced_backtest.js: the locals of runAiHeuristicStrategy
    call,           \* a function of either program taken on its own: input and result
    inFlight        \* trading_monitor.js: the runRealTimeAnalysis calls not yet settled

vars == <<running, currentState, decision, marketHours, cycles, bt, call, inFlight>>

(***************************************************************************)
(* Bounds of the model.                                                    *)
(***************************************************************************)
\* Largest holding-period counter explored (the hold limit is 10).
MaxDaysHeld == 11
\* Largest numerator / denominator of a money amount that is still traded on.
MaxNum == 200000
MaxDen == 200000
\* Number of rows of the historical table fed to the backtest loop.
MaxRows == 4
\* Number of live analysis cycles run after the program has started.
MaxCycles == 4

(***************************************************************************)
(* CONFIG (identical in both programs).                                    *)
(***************************************************************************)
signalEtf == "QQQ"
safeEtf == "QQQ"
longLeveragedEtf == "TQQQ"
shortLeveragedEtf == "SQQQ"
initialCapital == 100000
transactionCost == 5
rsiOversold == 10
rsiOverbought == 90
maxHoldPeriod == 10
\* riskManagement.stopLossPercent = 0.1, as numerator and denominator
stopLossPercentNum == 1
stopLossPercentDen == 10

(***************************************************************************)
(* Exact arithmetic on JavaScript numbers.                                 *)
(***************************************************************************)
Abs(x) == IF x < 0 THEN -x ELSE x

RECURSIVE GCD(_, _)
GCD(a, b) == IF b = 0 THEN a ELSE GCD(b, a % b)

\* The number n/d (d # 0) in lowest terms with a positive denominator.
Rat(n, d) ==
    LET g == GCD(Abs(n), Abs(d))
        s == IF d < 0 THEN -1 ELSE 1
    IN  [n |-> s * (n \div g), d |-> s * (d \div g)]

RatInt(k) == [n |-> k, d |-> 1]
RatNeg(a) == [n |-> -a.n, d |-> a.d]
RatAdd(a, b) == Rat(a.n * b.d + b.n * a.d, a.d * b.d)
RatSub(a, b) == Rat(a.n * b.d - b.n * a.d, a.d * b.d)
\* a * k and a / k for an integer k (k # 0 for the quotient); the factor is
\* cancelled against the other side before multiplying.
RatMulInt(a, k) ==
    LET g == GCD(a.d, Abs(k)) IN Rat(a.n * (k \div g), a.d \div g)
RatDivInt(a, k) ==
    LET g == GCD(Abs(a.n), Abs(k)) IN Rat(a.n \div g, a.d * (k \div g))
RatLeq(a, b) == a.n * b.d <= b.n * a.d
RatLess(a, b) == a.n * b.d < b.n * a.d
RatGeq(a, b) == RatLeq(b, a)
RatGt(a, b) == RatLess(b, a)

(***************************************************************************)
(* The advisory rule set (currentState.aiRules) and the live position.     *)
(***************************************************************************)
\* The rule set of the prompt's example, with the three confirmation flags
\* of each side, the stop-loss fraction and the market-hours flag left open.
AiRules(above50, above200, rising, below50, below200, falling, stop, hoursOnly) ==
    [ min_adx_threshold |-> 20,
      max_vix_threshold |-> 35,
      min_volume_threshold |-> 1000000,
      bullish_confirmation |->
        [ require_price_above_sma50 |-> above50,
          require_price_above_sma200 |-> above200,
          require_rising_sma |-> rising ],
      bearish_confirmation |->
        [ require_price_below_sma50 |-> below50,
          require_price_below_sma200 |-> below200,
          require_falling_sma |-> falling ],
      risk_management |->
        [ intraday_stop_loss |-> stop,
          profit_target |-> Rat(8, 100) ],
      market_hours_only |-> hoursOnly ]

\* The example rule set itself (stop loss 0.05, market hours only).
PromptRules == AiRules(TRUE, FALSE, TRUE, TRUE, FALSE, TRUE, Rat(5, 100), TRUE)

\* The global currentState as the module initialises it.
InitialState(rules) ==
    [ position |-> "CASH",
      aiRules |-> rules,
      currentEquity |-> RatInt(initialCapital),
      positionShares |-> RatInt(0),
      entryPrice |-> 0,
      daysInPosition |-> 0,
      isLeveragedPosition |-> FALSE ]

\* Variant: only the long proxy counts as leveraged.
IsLeveragedEtfLongOnly(symbol) == symbol = longLeveragedEtf

IsLeveragedEtf(symbol) ==
    symbol = longLeveragedEtf \/ symbol = shortLeveragedEtf

\* No decision has been taken yet.
Snapshot(rsi, adx, vix, volume, qqq, sma50, sma200, prevSma50, tqqq, sqqq) ==
    [ rsi |-> rsi, adx |-> adx, vixClose |-> vix, volume |-> volume,
      qqqClose |-> qqq, sma50 |-> sma50, sma200 |-> sma200,
      prevSma50 |-> prevSma50, tqqqClose |-> tqqq, sqqqClose |-> sqqq ]

NoDecision ==
    [ decision |-> "NONE", reason |-> "", targetSymbol |-> "",
      confidence |-> RatInt(0),
      indicators |-> Snapshot(0, 0, 0, 0, 0, 0, 0, 0, 0, 0) ]

(***************************************************************************)
(* makeRealTimeDecision                                                    *)
(***************************************************************************)
\* Price of the held leveraged instrument in the snapshot.
HeldLeveragedPrice(indicators) ==
    IF currentState.position = longLeveragedEtf
    THEN indicators.tqqqClose
    ELSE indicators.sqqqClose

\* pnlPercent = (currentPrice - entryPrice) / entryPrice
PnlPercent(indicators) ==
    Rat(HeldLeveragedPrice(indicators) - currentState.entryPrice,
        currentState.entryPrice)

\* Variant: the stop loss compared with < instead of <=.
StopLossHitStrict(indicators) ==
    RatLess(PnlPercent(indicators),
            RatNeg(currentState.aiRules.risk_management.intraday_stop_loss))

\* pnlPercent <= -intraday_stop_loss
StopLossHit(indicators) ==
    RatLeq(PnlPercent(indicators),
           RatNeg(currentState.aiRules.risk_management.intraday_stop_loss))

ProfitTargetHit(indicators) ==
    RatGeq(PnlPercent(indicators),
           currentState.aiRules.risk_management.profit_target)

MaxHoldHit == currentState.daysInPosition >= maxHoldPeriod

SellDecision(reason, confidence, indicators) ==
    [ decision |-> "SELL", reason |-> reason, targetSymbol |-> safeEtf,
      confidence |-> confidence, indicators |-> indicators ]

\* Variant: the hold-period check moved before the other two.
RiskExitHoldFirst(indicators) ==
    IF MaxHoldHit
    THEN SellDecision("Maximum hold period reached", Rat(8, 10), indicators)
    ELSE IF StopLossHit(indicators)
    THEN SellDecision("Stop loss triggered", RatInt(1), indicators)
    ELSE IF ProfitTargetHit(indicators)
    THEN SellDecision("Profit target reached", RatInt(1), indicators)
    ELSE NoDecision

\* The three exit checks of a leveraged position, in source order; "NONE"
\* when none of them returns.
RiskExit(indicators) ==
    IF StopLossHit(indicators)
    THEN SellDecision("Stop loss triggered", RatInt(1), indicators)
    ELSE IF ProfitTargetHit(indicators)
    THEN SellDecision("Profit target reached", RatInt(1), indicators)
    ELSE IF MaxHoldHit
    THEN SellDecision("Maximum hold period reached", Rat(8, 10), indicators)
    ELSE NoDecision

CommonChecks(indicators) ==
    << indicators.adx > currentState.aiRules.min_adx_threshold,
       indicators.vixClose < currentState.aiRules.max_vix_threshold,
       indicators.volume > currentState.aiRules.min_volume_threshold >>

BullishChecks(indicators) ==
    LET c == currentState.aiRules.bullish_confirmation IN
    CommonChecks(indicators) \o
    << IF c.require_price_above_sma50
         THEN indicators.qqqClose > indicators.sma50 ELSE TRUE,
       IF c.require_price_above_sma200
         THEN indicators.qqqClose > indicators.sma200 ELSE TRUE,
       IF c.require_rising_sma
         THEN indicators.sma50 > indicators.prevSma50 ELSE TRUE >>

BearishChecks(indicators) ==
    LET c == currentState.aiRules.bearish_confirmation IN
    CommonChecks(indicators) \o
    << IF c.require_price_below_sma50
         THEN indicators.qqqClose < indicators.sma50 ELSE TRUE,
       IF c.require_price_below_sma200
         THEN indicators.qqqClose < indicators.sma200 ELSE TRUE,
       IF c.require_falling_sma
         THEN indicators.sma50 < indicators.prevSma50 ELSE TRUE >>

\* checks.filter(Boolean).length
PassedChecks(checks) == Cardinality({i \in DOMAIN checks : checks[i]})

\* Variant: the pass count divided by the threshold instead of the length.
CheckConfidenceOverThreshold(checks) == Rat(PassedChecks(checks), 4)

\* confidence = passedChecks / checks.length
CheckConfidence(checks) == Rat(PassedChecks(checks), Len(checks))

\* Variant: five passes required.
EnoughChecksFive(passed) == passed >= 5

\* "Require at least 4 out of 6 checks to pass"
EnoughChecks(passed) == passed >= 4

\* Variant: the entry signals looked at whatever is held.
EntrySignalAnyPosition(indicators) ==
    LET hold(confidence) ==
            [ decision |-> "HOLD", reason |-> "No clear signal detected",
              targetSymbol |-> currentState.position,
              confidence |-> confidence, indicators |-> indicators ]
        buy(symbol, side, word, checks) ==
            [ decision |-> "BUY",
              reason |-> side \o " RSI with " \o ToString(PassedChecks(checks))
                         \o "/6 " \o word \o " confirmations",
              targetSymbol |-> symbol,
              confidence |-> CheckConfidence(checks), indicators |-> indicators ]
    IN  IF indicators.rsi < rsiOversold
        THEN IF PassedChecks(BullishChecks(indicators)) >= 4
             THEN buy(longLeveragedEtf, "Oversold", "bullish",
                      BullishChecks(indicators))
             ELSE hold(CheckConfidence(BullishChecks(indicators)))
        ELSE IF indicators.rsi > rsiOverbought
        THEN IF PassedChecks(BearishChecks(indicators)) >= 4
             THEN buy(shortLeveragedEtf, "Overbought", "bearish",
                      BearishChecks(indicators))
             ELSE hold(CheckConfidence(BearishChecks(indicators)))
        ELSE hold(Rat(5, 10))

\* The entry part: the defaults, overwritten by a confirmed signal.
EntrySignal(indicators) ==
    LET isOversold == indicators.rsi < rsiOversold
        isOverbought == indicators.rsi > rsiOverbought
        hold(confidence) ==
            [ decision |-> "HOLD", reason |-> "No clear signal detected",
              targetSymbol |-> currentState.position,
              confidence |-> confidence, indicators |-> indicators ]
        buy(symbol, side, word, checks) ==
            [ decision |-> "BUY",
              reason |-> side \o " RSI with " \o ToString(PassedChecks(checks))
                         \o "/6 " \o word \o " confirmations",
              targetSymbol |-> symbol,
              confidence |-> CheckConfidence(checks), indicators |-> indicators ]
    IN  IF isOversold /\ ~currentState.isLeveragedPosition
        THEN IF EnoughChecks(PassedChecks(BullishChecks(indicators)))
             THEN buy(longLeveragedEtf, "Oversold", "bullish",
                      BullishChecks(indicators))
             ELSE hold(CheckConfidence(BullishChecks(indicators)))
        ELSE IF isOverbought /\ ~currentState.isLeveragedPosition
        THEN IF EnoughChecks(PassedChecks(BearishChecks(indicators)))
             THEN buy(shortLeveragedEtf, "Overbought", "bearish",
                      BearishChecks(indicators))
             ELSE hold(CheckConfidence(BearishChecks(indicators)))
        ELSE hold(Rat(5, 10))

\* isMarketHours: the Eastern-time weekday (0 = Sunday) and hour of "now";
\* Monday to Friday, hours 9 to 16 inclusive.
IsMarketHours(day, hour) ==
    LET isWeekday == day >= 1 /\ day <= 5
        isDuringMarketHours == hour >= 9 /\ hour <= 16
    IN  isWeekday /\ isDuringMarketHours

\* Variant: the risk exits of a leveraged position looked at before the
\* market-hours guard.
MakeRealTimeDecisionRiskFirst(indicators, inHours) ==
    IF currentState.isLeveragedPosition
       /\ RiskExit(indicators).decision # "NONE"
    THEN RiskExit(indicators)
    ELSE IF currentState.aiRules.market_hours_only /\ ~inHours
    THEN [ decision |-> "HOLD", reason |-> "Outside market hours",
           targetSymbol |-> currentState.position,
           confidence |-> RatInt(1), indicators |-> indicators ]
    ELSE EntrySignal(indicators)

\* inHours is the value isMarketHours() returns when the decision is taken.
MakeRealTimeDecision(indicators, inHours) ==
    IF currentState.aiRules.market_hours_only /\ ~inHours
    THEN [ decision |-> "HOLD", reason |-> "Outside market hours",
           targetSymbol |-> currentState.position,
           confidence |-> RatInt(1), indicators |-> indicators ]
    ELSE IF currentState.isLeveragedPosition
            /\ RiskExit(indicators).decision # "NONE"
    THEN RiskExit(indicators)
    ELSE EntrySignal(indicators)


(***************************************************************************)
(* updatePortfolioState                                                    *)
(***************************************************************************)
\* The close of a symbol in the snapshot (anything that is not a leveraged
\* proxy is priced at the benchmark's close).
SnapshotPrice(symbol, indicators) ==
    IF symbol = longLeveragedEtf THEN indicators.tqqqClose
    ELSE IF symbol = shortLeveragedEtf THEN indicators.sqqqClose
    ELSE indicators.qqqClose

\* Variant: the sale leg charged nothing.
SaleProceedsFree(shares, price) == RatMulInt(shares, price)

\* shares * sellPrice - transactionCost
SaleProceeds(shares, price) ==
    RatSub(RatMulInt(shares, price), RatInt(transactionCost))

\* (equity - transactionCost) / price
SharesBought(equity, price) ==
    RatDivInt(RatSub(equity, RatInt(transactionCost)), price)

\* Variant: a BUY executed whatever is held.
UpdatePortfolioStateAnyBuy(dec) ==
    LET action == dec.decision
        targetSymbol == dec.targetSymbol
        indicators == dec.indicators
        heldPrice == SnapshotPrice(currentState.position, indicators)
    IN  IF action = "BUY"
        THEN LET currentPrice == SnapshotPrice(targetSymbol, indicators)
                 equity == IF currentState.positionShares.n > 0
                           THEN SaleProceeds(currentState.positionShares, heldPrice)
                           ELSE currentState.currentEquity
             IN  [ currentState EXCEPT
                     !.currentEquity = equity,
                     !.positionShares = SharesBought(equity, currentPrice),
                     !.position = targetSymbol,
                     !.entryPrice = currentPrice,
                     !.daysInPosition = 0,
                     !.isLeveragedPosition = IsLeveragedEtf(targetSymbol) ]
        ELSE IF action = "SELL"
        THEN LET equity == SaleProceeds(currentState.positionShares, heldPrice)
                 safePrice == indicators.qqqClose
             IN  [ currentState EXCEPT
                     !.currentEquity = equity,
                     !.positionShares = SharesBought(equity, safePrice),
                     !.position = safeEtf,
                     !.entryPrice = safePrice,
                     !.daysInPosition = 0,
                     !.isLeveragedPosition = FALSE ]
        ELSE IF action = "HOLD"
        THEN [ currentState EXCEPT !.daysInPosition = @ + 1 ]
        ELSE currentState

\* currentState after updatePortfolioState(dec).
UpdatePortfolioState(dec) ==
    LET action == dec.decision
        targetSymbol == dec.targetSymbol
        indicators == dec.indicators
        heldPrice == SnapshotPrice(currentState.position, indicators)
    IN  IF action = "BUY" /\ targetSymbol # currentState.position
        THEN LET currentPrice == SnapshotPrice(targetSymbol, indicators)
                 equity == IF currentState.positionShares.n > 0
                           THEN SaleProceeds(currentState.positionShares, heldPrice)
                           ELSE currentState.currentEquity
             IN  [ currentState EXCEPT
                     !.currentEquity = equity,
                     !.positionShares = SharesBought(equity, currentPrice),
                     !.position = targetSymbol,
                     !.entryPrice = currentPrice,
                     !.daysInPosition = 0,
                     !.isLeveragedPosition = IsLeveragedEtf(targetSymbol) ]
        ELSE IF action = "SELL"
        THEN LET equity == SaleProceeds(currentState.positionShares, heldPrice)
                 safePrice == indicators.qqqClose
             IN  [ currentState EXCEPT
                     !.currentEquity = equity,
                     !.positionShares = SharesBought(equity, safePrice),
                     !.position = safeEtf,
                     !.entryPrice = safePrice,
                     !.daysInPosition = 0,
                     !.isLeveragedPosition = FALSE ]
        ELSE IF action = "HOLD"
        THEN [ currentState EXCEPT !.daysInPosition = @ + 1 ]
        ELSE currentState

(***************************************************************************)
(* Inputs.                                                                 *)
(***************************************************************************)
\* Snapshots offered to the decision function on its own.
DecisionSnapshots ==
    { Snapshot(rsi, adx, vix, volume, 100, sma50, sma200, prev, tqqq, sqqq) :
        rsi \in {5, 50, 95}, adx \in {15, 30}, vix \in {20, 40},
        volume \in {500000, 2000000}, sma50 \in {95, 105},
        sma200 \in {95, 105}, prev \in {90, 110},
        tqqq \in {90, 100, 110}, sqqq \in {90, 100, 110} }

\* Rule sets offered to the decision function on its own.
DecisionRules ==
    { AiRules(f, g, f, g, f, g, stop, hoursOnly) :
        f \in BOOLEAN, g \in BOOLEAN,
        stop \in {Rat(5, 100), Rat(10, 100)}, hoursOnly \in BOOLEAN }
    \cup {PromptRules}

\* Holding-period counters around the hold limit.
DaysHeld == {0} \cup {d \in 0..MaxDaysHeld : d >= maxHoldPeriod - 1}

\* Position states the live program can be in when a cycle starts: the
\* initial one; a proxy bought at 100 with the initial capital; the safe ETF
\* after that proxy was sold again at 100. A proxy is held beyond the hold
\* limit only while the market-hours guard keeps returning first.
DecisionPositions ==
    LET fresh(rules) == InitialState(rules)
        bought == SharesBought(RatInt(initialCapital), 100)
        sold == SaleProceeds(bought, 100)
    IN  { [ fresh(rules) EXCEPT !.daysInPosition = days ] :
            rules \in DecisionRules, days \in DaysHeld }
        \cup
        UNION { { [ fresh(rules) EXCEPT
                      !.position = symbol,
                      !.positionShares = bought,
                      !.entryPrice = 100,
                      !.daysInPosition = days,
                      !.isLeveragedPosition = IsLeveragedEtf(symbol) ] :
                    symbol \in {longLeveragedEtf, shortLeveragedEtf},
                    days \in {d \in DaysHeld :
                                d > maxHoldPeriod => rules.market_hours_only} } :
                rules \in DecisionRules }
        \cup
        { [ fresh(rules) EXCEPT
              !.position = safeEtf,
              !.currentEquity = sold,
              !.positionShares = SharesBought(sold, 100),
              !.entryPrice = 100,
              !.daysInPosition = days ] :
            rules \in DecisionRules, days \in DaysHeld }

\* Snapshots offered to a live cycle.
CycleSnapshots ==
    { Snapshot(rsi, 15, 20, 500000, qqq, 105, 105, 100, tqqq, sqqq) :
        rsi \in {5, 50, 95}, qqq \in {100, 110},
        tqqq \in {1, 9000, 10000}, sqqq \in {9000, 10000} }

\* Rule sets a live run may have received.
LiveRules ==
    { PromptRules,
      AiRules(TRUE, FALSE, TRUE, TRUE, FALSE, FALSE, Rat(10, 100), FALSE) }

\* One row of the historical table: closes and indicators of one date.
Day(date, rsi, adx, vix, qqq, sma50, sma200, tqqq, sqqq) ==
    [ date |-> date, rsi |-> rsi, adx |-> adx, vixClose |-> vix,
      qqqClose |-> qqq, sma50 |-> sma50, sma200 |-> sma200,
      tqqqClose |-> tqqq, sqqqClose |-> sqqq ]

\* Rows offered to the backtest loop as row number date.
BacktestRows(date) ==
    { Day(date, rsi, 25, 20, qqq, 105, 105, tqqq, sqqq) :
        rsi \in {5, 50, 95}, qqq \in {100, 110},
        tqqq \in {1, 9000, 10000}, sqqq \in {9000, 10000} }

\* Rule sets a backtest may have received (its prompt has no volume,
\* moving-average-slope or risk fields).
BacktestRules ==
    { [ min_adx_threshold |-> 20,
        max_vix_threshold |-> 35,
        bullish_confirmation |->
          [ require_price_above_sma50 |-> f,
            require_price_above_sma200 |-> FALSE ],
        bearish_confirmation |->
          [ require_price_below_sma50 |-> f,
            require_price_below_sma200 |-> FALSE ] ] : f \in BOOLEAN }

\* The locals of runAiHeuristicStrategy as declared, before the prologue;
\* day is data[0] and row the index of the next row of the loop.
BtIdle ==
    [ row |-> 0, day |-> Day(0, 0, 0, 0, 0, 0, 0, 0, 0),
      aiRules |-> PromptRules,
      cash |-> RatInt(initialCapital), equity |-> RatInt(initialCapital),
      currentPosition |-> "CASH", shares |-> RatInt(0), trades |-> <<>>,
      isInLeveragedTrade |-> FALSE, daysInTrade |-> 0, entryPrice |-> 0,
      simulationLog |-> <<>> ]

\* No function is being exercised on its own.
NoCall == [fn |-> "none"]

\* No analysis cycle has been started.
NoneInFlight == <<>>

\* A money amount the model still computes with.
Representable(a) == Abs(a.n) <= MaxNum /\ a.d <= MaxDen

(***************************************************************************)
(* The decision function on its own.                                       *)
(***************************************************************************)
InitDecision ==
    /\ running = "decide"
    /\ currentState \in DecisionPositions
    /\ decision = NoDecision
    /\ marketHours = TRUE
    /\ cycles = 0
    /\ bt = BtIdle
    /\ call = NoCall
    /\ inFlight = NoneInFlight

Decide ==
    /\ running = "decide"
    /\ decision = NoDecision
    /\ \E indicators \in DecisionSnapshots, inHours \in BOOLEAN :
         /\ decision' = MakeRealTimeDecision(indicators, inHours)
         /\ marketHours' = inHours
    /\ UNCHANGED <<running, currentState, cycles, bt, call, inFlight>>

NextDecision == Decide

SpecDecision == InitDecision /\ [][NextDecision]_vars

(***************************************************************************)
(* The live program: one action per analysis cycle.                        *)
(***************************************************************************)
\* initialize(): the fresh global state with the rules just received.
InitLive ==
    /\ running = "live"
    /\ currentState \in {InitialState(rules) : rules \in LiveRules}
    /\ decision = NoDecision
    /\ marketHours = TRUE
    /\ cycles = 0
    /\ bt = BtIdle
    /\ call = NoCall
    /\ inFlight = NoneInFlight

\* runRealTimeAnalysis: decide on the snapshot, then apply the decision.
LiveCycle ==
    /\ running = "live"
    /\ cycles < MaxCycles
    /\ Representable(currentState.positionShares)
    /\ Representable(currentState.currentEquity)
    /\ \E indicators \in CycleSnapshots, inHours \in BOOLEAN :
         LET dec == MakeRealTimeDecision(indicators, inHours) IN
         /\ decision' = dec
         /\ marketHours' = inHours
         /\ currentState' = UpdatePortfolioState(dec)
    /\ cycles' = cycles + 1
    /\ UNCHANGED <<running, bt, call, inFlight>>


(***************************************************************************)
(* runAiHeuristicStrategy: the prologue, then one action per row.          *)
(***************************************************************************)
\* The locals when the loop is entered: fully invested in the safe ETF at
\* the close of data[0].
BtStart(rules, day0) ==
    [ BtIdle EXCEPT
        !.day = day0,
        !.aiRules = rules,
        !.currentPosition = safeEtf,
        !.shares = SharesBought(RatInt(initialCapital),
                                SnapshotPrice(safeEtf, day0)),
        !.cash = RatInt(0) ]

InitBacktest ==
    /\ running = "backtest"
    /\ bt \in {BtStart(rules, day0) :
                 rules \in BacktestRules, day0 \in BacktestRows(0)}
    /\ currentState = InitialState(PromptRules)
    /\ decision = NoDecision
    /\ marketHours = TRUE
    /\ cycles = 0
    /\ call = NoCall
    /\ inFlight = NoneInFlight

Trade(day, action, symbol, shares, price, equity) ==
    [ date |-> day.date, action |-> action, symbol |-> symbol,
      shares |-> shares, price |-> price, equity |-> equity ]

\* Variant: the time stop only once the hold limit has been exceeded.
ExitReasonLate(day, daysInTrade) ==
    IF daysInTrade > maxHoldPeriod
    THEN "TIME STOP"
    ELSE IF SnapshotPrice(bt.currentPosition, day) * stopLossPercentDen
              < bt.entryPrice * (stopLossPercentDen - stopLossPercentNum)
         THEN "STOP LOSS"
         ELSE ""

\* Variant: the stop loss checked before the time stop.
ExitReasonStopFirst(day, daysInTrade) ==
    IF SnapshotPrice(bt.currentPosition, day) * stopLossPercentDen
         < bt.entryPrice * (stopLossPercentDen - stopLossPercentNum)
    THEN "STOP LOSS"
    ELSE IF daysInTrade >= maxHoldPeriod THEN "TIME STOP"
    ELSE ""

\* The exit reason of a leveraged trade on this row, "" for none.
ExitReason(day, daysInTrade) ==
    IF daysInTrade >= maxHoldPeriod THEN "TIME STOP"
    ELSE IF SnapshotPrice(bt.currentPosition, day) * stopLossPercentDen
              < bt.entryPrice * (stopLossPercentDen - stopLossPercentNum)
    THEN "STOP LOSS"
    ELSE ""

\* The entry signal of a row while not in a leveraged trade, "" for none.
BtEntrySignal(day) ==
    LET adxCheck == day.adx > bt.aiRules.min_adx_threshold
        vixCheck == day.vixClose < bt.aiRules.max_vix_threshold
    IN  IF day.rsi < rsiOversold
        THEN IF /\ adxCheck /\ vixCheck
                /\ (bt.aiRules.bullish_confirmation.require_price_above_sma50
                      => day.qqqClose > day.sma50)
                /\ (bt.aiRules.bullish_confirmation.require_price_above_sma200
                      => day.qqqClose > day.sma200)
             THEN longLeveragedEtf ELSE ""
        ELSE IF day.rsi > rsiOverbought
        THEN IF /\ adxCheck /\ vixCheck
                /\ (bt.aiRules.bearish_confirmation.require_price_below_sma50
                      => day.qqqClose < day.sma50)
                /\ (bt.aiRules.bearish_confirmation.require_price_below_sma200
                      => day.qqqClose < day.sma200)
             THEN shortLeveragedEtf ELSE ""
        ELSE ""

\* The two records pushed when a leveraged trade is exited on day.
ExitTrades(day, exitReason, newShares, equity) ==
    << Trade(day, "SELL (" \o exitReason \o ")", bt.currentPosition,
             bt.shares, SnapshotPrice(bt.currentPosition, day), equity),
       Trade(day, "BUY (Default)", safeEtf, newShares,
             SnapshotPrice(safeEtf, day), equity) >>

\* Variant: the entry pushes its BUY record only.
EntryTradesBuyOnly(day, entrySignal, newShares, equity) ==
    << Trade(day, "BUY", entrySignal, newShares,
             SnapshotPrice(entrySignal, day), equity) >>

\* The two records pushed when a leveraged trade is entered on day.
EntryTrades(day, entrySignal, newShares, equity) ==
    << Trade(day, "SELL (Entry)", safeEtf, bt.shares,
             SnapshotPrice(safeEtf, day), equity),
       Trade(day, "BUY", entrySignal, newShares,
             SnapshotPrice(entrySignal, day), equity) >>

\* The locals after the loop body has run on day.
BtBody(day) ==
    LET heldClose == SnapshotPrice(bt.currentPosition, day)
        safeClose == SnapshotPrice(safeEtf, day)
        equity == RatAdd(bt.cash, RatMulInt(bt.shares, heldClose))
        marked == [ bt EXCEPT !.day = day, !.row = @ + 1, !.equity = equity ]
        after ==
          IF bt.isInLeveragedTrade
          THEN LET daysInTrade == bt.daysInTrade + 1
                   exitReason == ExitReason(day, daysInTrade)
                   cash == RatAdd(bt.cash, SaleProceeds(bt.shares, heldClose))
                   shares == SharesBought(cash, safeClose)
               IN  IF exitReason # ""
                   THEN [ marked EXCEPT
                            !.daysInTrade = daysInTrade,
                            !.shares = shares,
                            !.cash = RatInt(0),
                            !.currentPosition = safeEtf,
                            !.trades = @ \o ExitTrades(day, exitReason, shares, equity),
                            !.isInLeveragedTrade = FALSE ]
                   ELSE [ marked EXCEPT !.daysInTrade = daysInTrade ]
          ELSE LET entrySignal == BtEntrySignal(day)
                   cash == RatAdd(bt.cash, SaleProceeds(bt.shares, safeClose))
                   buyPrice == SnapshotPrice(entrySignal, day)
                   shares == SharesBought(cash, buyPrice)
               IN  IF entrySignal # ""
                   THEN [ marked EXCEPT
                            !.shares = shares,
                            !.cash = RatInt(0),
                            !.currentPosition = entrySignal,
                            !.trades = @ \o EntryTrades(day, entrySignal, shares, equity),
                            !.isInLeveragedTrade = TRUE,
                            !.daysInTrade = 0,
                            !.entryPrice = buyPrice ]
                   ELSE marked
    IN  [ after EXCEPT
            !.simulationLog =
                Append(@, [ date |-> day.date, equity |-> equity,
                            position |-> after.currentPosition ]) ]

\* One iteration of "for (const day of data)"; the first one runs on data[0].
BacktestRow ==
    /\ running = "backtest"
    /\ bt.row < MaxRows
    /\ Representable(bt.shares)
    /\ \E day \in (IF bt.row = 0 THEN {bt.day} ELSE BacktestRows(bt.row)) :
         bt' = BtBody(day)
    /\ UNCHANGED <<running, currentState, decision, marketHours, cycles, call,
                   inFlight>>

(***************************************************************************)
(* Either program, run from its start.                                     *)
(***************************************************************************)
Init == InitLive \/ InitBacktest

Next == LiveCycle \/ BacktestRow

Spec == Init /\ [][Next]_vars


(***************************************************************************)
(* Properties of the decision function (checked under SpecDecision).       *)
(***************************************************************************)
\* A decision was returned and the market-hours guard did not return first.
DecidedPastGuard ==
    /\ running = "decide"
    /\ decision.decision # "NONE"
    /\ ~(currentState.aiRules.market_hours_only /\ ~marketHours)

\* The unrealized return of the held proxy on the decided snapshot, compared
\* with a fraction f: (price - entry) / entry <= -f, respectively >= f.
ReturnAtOrBelowMinus(f) ==
    (SnapshotPrice(currentState.position, decision.indicators)
       - currentState.entryPrice) * f.d
      <= -(f.n * currentState.entryPrice)

ReturnAtOrAbove(f) ==
    (SnapshotPrice(currentState.position, decision.indicators)
       - currentState.entryPrice) * f.d
      >= f.n * currentState.entryPrice

StopLossCase ==
    ReturnAtOrBelowMinus(currentState.aiRules.risk_management.intraday_stop_loss)

ProfitTargetCase ==
    ReturnAtOrAbove(currentState.aiRules.risk_management.profit_target)

MaxHoldCase == currentState.daysInPosition >= 10

\* C1: past the market-hours guard, a leveraged position whose return is at
\* or below minus the stop-loss fraction while daysInPosition has reached the
\* hold limit is sold to the safe ETF for the stop-loss reason, never for the
\* hold-period reason; of the three exits only the first true one, in the
\* order stop loss, profit target, hold period, gives the reason.
C1_RiskExitPriority ==
    (DecidedPastGuard /\ currentState.isLeveragedPosition) =>
       /\ (StopLossCase /\ MaxHoldCase) =>
            /\ decision.decision = "SELL"
            /\ decision.targetSymbol = "QQQ"
            /\ decision.reason = "Stop loss triggered"
       /\ StopLossCase => decision.reason = "Stop loss triggered"
       /\ (~StopLossCase /\ ProfitTargetCase) =>
            decision.reason = "Profit target reached"
       /\ (~StopLossCase /\ ~ProfitTargetCase /\ MaxHoldCase) =>
            decision.reason = "Maximum hold period reached"
       /\ (~StopLossCase /\ ~ProfitTargetCase /\ ~MaxHoldCase) =>
            decision.decision = "HOLD"

\* C1 witness: stop loss and hold limit true together, sold for the stop loss.
C1_Witness ==
    /\ DecidedPastGuard
    /\ currentState.isLeveragedPosition
    /\ StopLossCase
    /\ MaxHoldCase
    /\ decision.decision = "SELL"
    /\ decision.reason = "Stop loss triggered"

\* The number of the six confirmation checks of a side that pass on the
\* decided snapshot.
BullishPassed == PassedChecks(BullishChecks(decision.indicators))
BearishPassed == PassedChecks(BearishChecks(decision.indicators))

\* C2: past the guard and not leveraged, an oversold reading gives confidence
\* (checks passed)/6 and BUY of the long proxy exactly when at least 4 of the
\* 6 bullish checks pass, otherwise HOLD of the held instrument; an
\* overbought reading does the same with the bearish checks and the short
\* proxy.
C2_EntryConfirmation ==
    (DecidedPastGuard /\ ~currentState.isLeveragedPosition) =>
       /\ decision.indicators.rsi < 10 =>
            /\ decision.confidence.n * 6 = BullishPassed * decision.confidence.d
            /\ (decision.decision = "BUY" /\ decision.targetSymbol = "TQQQ")
                 <=> BullishPassed >= 4
            /\ BullishPassed < 4 =>
                 /\ decision.decision = "HOLD"
                 /\ decision.targetSymbol = currentState.position
       /\ decision.indicators.rsi > 90 =>
            /\ decision.confidence.n * 6 = BearishPassed * decision.confidence.d
            /\ (decision.decision = "BUY" /\ decision.targetSymbol = "SQQQ")
                 <=> BearishPassed >= 4
            /\ BearishPassed < 4 =>
                 /\ decision.decision = "HOLD"
                 /\ decision.targetSymbol = currentState.position

\* C2 witness: exactly 4 of the 6 bullish checks pass on an oversold reading
\* (volume below the minimum and price below the long average) and the long
\* proxy is bought with confidence 4/6.
C2_Witness ==
    /\ DecidedPastGuard
    /\ ~currentState.isLeveragedPosition
    /\ decision.indicators.rsi < 10
    /\ BullishPassed = 4
    /\ decision.indicators.volume < 1000000
    /\ decision.indicators.qqqClose < decision.indicators.sma200
    /\ decision.decision = "BUY"
    /\ decision.targetSymbol = "TQQQ"
    /\ decision.confidence = [n |-> 2, d |-> 3]

\* C3: every returned decision has 0 <= confidence <= 1.
C3_ConfidenceBound ==
    (running = "decide" /\ decision.decision # "NONE") =>
       /\ decision.confidence.d > 0
       /\ 0 <= decision.confidence.n
       /\ decision.confidence.n <= decision.confidence.d

\* C3 witness: a decision whose confidence comes from the check count and
\* lies strictly inside the interval (all six checks pass: exactly 1, and two
\* of six here).
C3_Witness ==
    /\ DecidedPastGuard
    /\ decision.decision = "HOLD"
    /\ decision.indicators.rsi > 90
    /\ BearishPassed = 2
    /\ decision.confidence = [n |-> 1, d |-> 3]

\* C4: past the guard, a leveraged position whose return is at or below
\* minus the stop-loss fraction, equality included, is sold to the safe ETF
\* with confidence 1.0 for the stop-loss reason.
C4_StopLossInclusive ==
    (DecidedPastGuard /\ currentState.isLeveragedPosition /\ StopLossCase) =>
       /\ decision.decision = "SELL"
       /\ decision.targetSymbol = "QQQ"
       /\ decision.confidence = [n |-> 1, d |-> 1]
       /\ decision.reason = "Stop loss triggered"

\* C4 witness: entry 100, price 90, fraction 0.1, hold limit not reached:
\* the return is exactly -0.10 and the position is sold for the stop loss.
C4_Witness ==
    /\ DecidedPastGuard
    /\ currentState.position = "TQQQ"
    /\ currentState.entryPrice = 100
    /\ decision.indicators.tqqqClose = 90
    /\ currentState.aiRules.risk_management.intraday_stop_loss = [n |-> 1, d |-> 10]
    /\ currentState.daysInPosition < 10
    /\ decision.decision = "SELL"
    /\ decision.reason = "Stop loss triggered"


(***************************************************************************)
(* Properties of the position bookkeeping (checked under Spec).            *)
(***************************************************************************)
Live == running = "live"
Backtest == running = "backtest"

\* The latest live cycle, respectively the latest backtest row, changed the
\* held instrument.
LiveCycleTraded == Live /\ decision.decision \in {"BUY", "SELL"}

BacktestRowTraded ==
    /\ Backtest
    /\ bt.row > 0
    /\ bt.trades # <<>>
    /\ bt.trades[Len(bt.trades)].date = bt.day.date

\* C5: the share count of the live state and of the backtest loop is never
\* negative, whatever the (positive) prices.
C5_SharesNonNegative ==
    /\ Live => currentState.positionShares.n >= 0
    /\ Backtest => bt.shares.n >= 0

SellActions == {"SELL (Entry)", "SELL (TIME STOP)", "SELL (STOP LOSS)"}
BuyActions == {"BUY", "BUY (Default)"}

\* One backtest row: a change of the held instrument appends exactly a SELL
\* of the instrument left and then a BUY of the instrument entered, both
\* dated with the row; no change appends nothing.
C6_Step ==
    Backtest =>
      IF bt'.currentPosition # bt.currentPosition
      THEN /\ Len(bt'.trades) = Len(bt.trades) + 2
           /\ SubSeq(bt'.trades, 1, Len(bt.trades)) = bt.trades
           /\ LET sell == bt'.trades[Len(bt.trades) + 1]
                  buy == bt'.trades[Len(bt.trades) + 2]
              IN  /\ sell.action \in SellActions
                  /\ sell.symbol = bt.currentPosition
                  /\ sell.date = bt'.day.date
                  /\ buy.action \in BuyActions
                  /\ buy.symbol = bt'.currentPosition
                  /\ buy.date = bt'.day.date
      ELSE bt'.trades = bt.trades

\* C6: in the backtest every change of the held instrument appends one SELL
\* record of the instrument left immediately followed by one BUY record of
\* the instrument entered, both dated with the current row, and a row without
\* a position change appends no record.
C6_SellThenBuy == [][C6_Step]_vars

\* C6 witness: a row entered the short proxy and the ledger ends with the
\* SELL of the safe ETF and the BUY of the proxy, both of that row.
C6_Witness ==
    /\ BacktestRowTraded
    /\ bt.currentPosition = "SQQQ"
    /\ Len(bt.trades) >= 4
    /\ bt.trades[Len(bt.trades) - 1].action = "SELL (Entry)"
    /\ bt.trades[Len(bt.trades) - 1].date = bt.day.date
    /\ bt.trades[Len(bt.trades)].action = "BUY"

\* C7: the leveraged flag is true exactly when the held instrument is the
\* long or the short proxy, in the live state and in the backtest loop.
C7_LeveragedFlag ==
    /\ Live => (currentState.isLeveragedPosition
                  <=> currentState.position \in {"TQQQ", "SQQQ"})
    /\ Backtest => (bt.isInLeveragedTrade
                      <=> bt.currentPosition \in {"TQQQ", "SQQQ"})

\* C7 witness: a live cycle bought the short proxy and the flag is set.
C7_Witness ==
    /\ LiveCycleTraded
    /\ decision.decision = "BUY"
    /\ currentState.position = "SQQQ"
    /\ currentState.isLeveragedPosition

\* C8: right after a transition that changed the held instrument, entry and
\* exit alike, the holding-period counter is 0 in both programs.
C8_CounterResetOnChange ==
    /\ LiveCycleTraded => currentState.daysInPosition = 0
    /\ BacktestRowTraded => bt.daysInTrade = 0

\* C9: after every live cycle that leaves an instrument held, the stored
\* equity is positionShares times that instrument's price in the cycle's
\* snapshot.
C9_EquityMarkedToMarket ==
    (Live /\ cycles > 0 /\ currentState.position # "CASH") =>
       currentState.currentEquity
         = RatMulInt(currentState.positionShares,
                     SnapshotPrice(currentState.position, decision.indicators))

\* One step: value bought = value sold - 2 costs when a positive holding is
\* liquidated, = capital - 1 cost when nothing was held.
C10_Step ==
    /\ (Live /\ currentState'.position # currentState.position) =>
         LET bought == RatMulInt(currentState'.positionShares,
                         SnapshotPrice(currentState'.position,
                                       decision'.indicators))
             sold == RatMulInt(currentState.positionShares,
                         SnapshotPrice(currentState.position,
                                       decision'.indicators))
         IN  /\ currentState.positionShares.n > 0 =>
                  bought = RatSub(sold, RatInt(2 * 5))
             /\ currentState.positionShares.n = 0 =>
                  bought = RatInt(100000 - 5)
    /\ (Backtest /\ bt'.currentPosition # bt.currentPosition) =>
         RatMulInt(bt'.shares, SnapshotPrice(bt'.currentPosition, bt'.day))
           = RatSub(RatMulInt(bt.shares,
                              SnapshotPrice(bt.currentPosition, bt'.day)),
                    RatInt(2 * 5))

\* The backtest's first establishment: shares * close of row 0 = capital - cost.
C10_FirstEstablishment ==
    Backtest =>
      RatMulInt(bt.shares, SnapshotPrice(bt.currentPosition, bt.day))
        = RatInt(100000 - 5)

\* C10: the transaction cost is charged once per leg: a position change that
\* liquidates a holding buys shares worth the value sold minus two costs, and
\* the first establishment from no holding buys shares worth the capital
\* minus one cost.
C10_CostPerLeg == C10_FirstEstablishment /\ [][C10_Step]_vars

\* C10 witness: a live cycle sold a positive proxy holding into the safe ETF.
C10_Witness ==
    /\ LiveCycleTraded
    /\ decision.decision = "SELL"
    /\ currentState.position = "QQQ"
    /\ currentState.positionShares.n > 0
    /\ cycles >= 2

(***************************************************************************)
(* The trade ledger of the backtest.                                       *)
(***************************************************************************)
\* The loop has handled at least one row, so bt.trades is what
\* runAiHeuristicStrategy would return if the data ended here.
BacktestReturned == Backtest /\ bt.row >= 1

\* C11: the first record of the ledger returned by the backtest is a BUY of
\* the safe instrument dated with the first processed row (date 0), the
\* initial establishment in the safe instrument.
C11_LedgerStartsWithInitialBuy ==
    BacktestReturned =>
        /\ bt.trades # <<>>
        /\ bt.trades[1].action \in BuyActions
        /\ bt.trades[1].symbol = safeEtf
        /\ bt.trades[1].date = 0

(***************************************************************************)
(* The market-hours guard: makeRealTimeDecision at a given wall-clock time. *)
(***************************************************************************)
\* Rule sets with and without the market-hours restriction.
GuardRules ==
    { PromptRules,
      AiRules(TRUE, TRUE, TRUE, TRUE, TRUE, TRUE, Rat(5, 100), FALSE) }

GuardPositions == {p \in DecisionPositions : p.aiRules \in GuardRules}

\* Snapshots that differ in the oscillator and the proxies' closes.
GuardSnapshots ==
    { s \in DecisionSnapshots :
        /\ s.adx = 30 /\ s.vixClose = 20 /\ s.volume = 2000000
        /\ s.sma50 = 95 /\ s.sma200 = 95 /\ s.prevSma50 = 90 }

InitGuard ==
    /\ running = "guard"
    /\ currentState \in GuardPositions
    /\ decision = NoDecision
    /\ marketHours = TRUE
    /\ cycles = 0
    /\ bt = BtIdle
    /\ call = NoCall
    /\ inFlight = NoneInFlight

\* makeRealTimeDecision called at weekday day, hour hour (Eastern time).
DecideAt ==
    /\ running = "guard"
    /\ decision = NoDecision
    /\ \E indicators \in GuardSnapshots, day \in 0..6, hour \in 0..23 :
         /\ marketHours' = IsMarketHours(day, hour)
         /\ decision' = MakeRealTimeDecision(indicators, IsMarketHours(day, hour))
         /\ call' = [fn |-> "isMarketHours", day |-> day, hour |-> hour]
    /\ UNCHANGED <<running, currentState, cycles, bt, inFlight>>

NextGuard == DecideAt

SpecGuard == InitGuard /\ [][NextGuard]_vars

\* The decision was taken at a time outside the trading window while the
\* rules restrict trading to market hours.
OutsideWindow ==
    /\ running = "guard"
    /\ decision # NoDecision
    /\ currentState.aiRules.market_hours_only
    /\ ~marketHours

\* C12: with market_hours_only set and the time outside the window, the
\* decision is HOLD with confidence 1 and the held instrument as target,
\* whatever the snapshot and the position, including a leveraged position
\* whose stop-loss, profit-target or max-hold condition is true.
C12_GuardFirst ==
    OutsideWindow =>
        /\ decision.decision = "HOLD"
        /\ decision.confidence = RatInt(1)
        /\ decision.targetSymbol = currentState.position

\* A leveraged position 10% under its entry and at the hold limit, on a
\* Saturday at noon: the guard answers.
C12_Witness ==
    /\ OutsideWindow
    /\ call = [fn |-> "isMarketHours", day |-> 6, hour |-> 12]
    /\ currentState.isLeveragedPosition
    /\ StopLossCase
    /\ MaxHoldCase
    /\ decision.decision = "HOLD"
    /\ decision.reason = "Outside market hours"

(***************************************************************************)
(* alignData: the date-wise inner join of the per-ticker series.           *)
(***************************************************************************)
\* Longest series offered to alignData.
MaxSeriesLen == 2

\* Dates are the strings toISOString().split("T")[0] yields; a string is
\* modelled as the sequence of its digits (fixed width, as ISO dates are).
AlignDates == {<<0, 1>>, <<0, 2>>, <<1, 0>>}

\* The day a date string denotes.
DateValue(date) == 10 * date[1] + date[2]

\* The tickers requested from the data provider.
AlignTickers == {"QQQ", "^VIX", "TQQQ"}

\* String comparison by code units, as Array.prototype.sort() without a
\* comparator does.
StringLess(a, b) ==
    \/ \E i \in 1..Len(a) :
         /\ i <= Len(b)
         /\ \A k \in 1..(i - 1) : a[k] = b[k]
         /\ a[i] < b[i]
    \/ /\ Len(a) < Len(b)
       /\ \A k \in 1..Len(a) : a[k] = b[k]

RECURSIVE SortStrings(_)
\* Array.from(set).sort()
SortStrings(S) ==
    IF S = {} THEN <<>>
    ELSE LET first == CHOOSE x \in S : \A y \in S : ~StringLess(y, x)
         IN  <<first>> \o SortStrings(S \ {first})

\* One quote of a ticker.
Bar(date, close) == [date |-> date, close |-> close]

\* new Map(v.map(d => [d.date, d])): a later bar of the same date replaces
\* an earlier one.
BarsByDate(series) ==
    [ date \in {series[i].date : i \in DOMAIN series} |->
        series[CHOOSE i \in DOMAIN series :
                 /\ series[i].date = date
                 /\ \A k \in DOMAIN series : series[k].date = date => k <= i] ]

RECURSIVE AlignedRows(_, _, _)
\* The loop over sortedDates from index i on.
AlignedRows(sortedDates, maps, i) ==
    IF i > Len(sortedDates) THEN <<>>
    ELSE LET date == sortedDates[i]
             allPresent == \A ticker \in DOMAIN maps : date \in DOMAIN maps[ticker]
             dailyData == [ date |-> date,
                            bars |-> [ ticker \in {t \in DOMAIN maps :
                                                     date \in DOMAIN maps[t]} |->
                                         maps[ticker][date] ] ]
         IN  (IF allPresent THEN <<dailyData>> ELSE <<>>)
             \o AlignedRows(sortedDates, maps, i + 1)

RECURSIVE AllRows(_, _, _)
\* The loop pushing a row for every date, complete or not.
AllRows(sortedDates, maps, i) ==
    IF i > Len(sortedDates) THEN <<>>
    ELSE LET date == sortedDates[i]
             dailyData == [ date |-> date,
                            bars |-> [ ticker \in {t \in DOMAIN maps :
                                                     date \in DOMAIN maps[t]} |->
                                         maps[ticker][date] ] ]
         IN  <<dailyData>> \o AllRows(sortedDates, maps, i + 1)

\* Variant: a row for every date any ticker has.
AlignDataAnyPresent(dataByTicker) ==
    LET allDates == UNION { {dataByTicker[t][i].date : i \in DOMAIN dataByTicker[t]} :
                            t \in DOMAIN dataByTicker }
        maps == [t \in DOMAIN dataByTicker |-> BarsByDate(dataByTicker[t])]
    IN  AllRows(SortStrings(allDates), maps, 1)

\* alignData (the backtest's function and the live method read the same).
AlignData(dataByTicker) ==
    LET allDates == UNION { {dataByTicker[t][i].date : i \in DOMAIN dataByTicker[t]} :
                            t \in DOMAIN dataByTicker }
        sortedDates == SortStrings(allDates)
        maps == [t \in DOMAIN dataByTicker |-> BarsByDate(dataByTicker[t])]
    IN  AlignedRows(sortedDates, maps, 1)

\* The series of one ticker: any order, repeated dates allowed; the close
\* tells the bars of one series apart.
AlignSeries ==
    UNION { { [i \in 1..n |-> Bar(dates[i], 100 + i)] :
                dates \in [1..n -> AlignDates] } : n \in 0..MaxSeriesLen }

AlignInputs == [AlignTickers -> AlignSeries]

InitAlign ==
    /\ running = "alignData"
    /\ call \in { [fn |-> "alignData", program |-> "none",
                   dataByTicker |-> d, result |-> <<>>] : d \in AlignInputs }
    /\ currentState = InitialState(PromptRules)
    /\ decision = NoDecision
    /\ marketHours = TRUE
    /\ cycles = 0
    /\ bt = BtIdle
    /\ inFlight = NoneInFlight

\* main() of the backtest aligning the fetched series.
AlignBacktest ==
    /\ running = "alignData"
    /\ call.program = "none"
    /\ call' = [call EXCEPT !.program = "backtest",
                            !.result = AlignData(call.dataByTicker)]
    /\ UNCHANGED <<running, currentState, decision, marketHours, cycles, bt,
                   inFlight>>

\* calculateCurrentIndicators of the live program aligning the fetched series.
AlignLive ==
    /\ running = "alignData"
    /\ call.program = "none"
    /\ call' = [call EXCEPT !.program = "live",
                            !.result = AlignData(call.dataByTicker)]
    /\ UNCHANGED <<running, currentState, decision, marketHours, cycles, bt,
                   inFlight>>

NextAlign == AlignBacktest \/ AlignLive

SpecAlign == InitAlign /\ [][NextAlign]_vars

\* alignData has returned.
Aligned == running = "alignData" /\ call.program # "none"

\* Date d occurs in the series of ticker t.
InSeries(d, t) ==
    \E k \in DOMAIN call.dataByTicker[t] : call.dataByTicker[t][k].date = d

\* C13: alignData returns rows in strictly ascending date order, with a row
\* for date d if and only if d occurs in every ticker's series, and every
\* row carries a bar of its date for every ticker.
C13_InnerJoin ==
    Aligned =>
        LET rows == call.result IN
        /\ \A i, j \in DOMAIN rows :
             i < j => DateValue(rows[i].date) < DateValue(rows[j].date)
        /\ \A d \in AlignDates :
             (\E i \in DOMAIN rows : rows[i].date = d)
               <=> (\A t \in AlignTickers : InSeries(d, t))
        /\ \A i \in DOMAIN rows : \A t \in AlignTickers :
             /\ t \in DOMAIN rows[i].bars
             /\ rows[i].bars[t].date = rows[i].date

\* Two dates every ticker has, offered in different orders: the result has
\* one row for each, the earlier date first.
C13_Witness ==
    /\ Aligned
    /\ call.program = "live"
    /\ call.dataByTicker["QQQ"] = <<Bar(<<1, 0>>, 101), Bar(<<0, 2>>, 102)>>
    /\ call.dataByTicker["^VIX"] = <<Bar(<<0, 2>>, 101), Bar(<<1, 0>>, 102)>>
    /\ call.dataByTicker["TQQQ"] = <<Bar(<<1, 0>>, 101), Bar(<<0, 2>>, 102)>>
    /\ Len(call.result) = 2
    /\ call.result[1].date = <<0, 2>>
    /\ call.result[2].date = <<1, 0>>

(***************************************************************************)
(* calculateIndicators (backtest) and calculateCurrentIndicators (live):   *)
(* which indicator values exist for a given number of aligned rows.        *)
(* Indicator values are abstracted to "number", "null" or "undefined".     *)
(***************************************************************************)
\* Largest number of aligned rows offered.
MaxAlignedRows == 202

rsiPeriod == 2
shortSmaPeriod == 50
longSmaPeriod == 200
adxPeriod == 14
longestLookback == 200

\* Lengths of the arrays the indicator library returns for n closes: the
\* k-th output covers the inputs ending at index k + p - 1 (SMA), k + p
\* (RSI) and k + 2p - 1 (ADX).
SmaLength(n, p) == IF n >= p THEN n - p + 1 ELSE 0
RsiLength(n, p) == IF n > p THEN n - p ELSE 0
AdxLength(n, p) == IF n >= 2 * p THEN n - 2 * p + 1 ELSE 0

\* Index of the last input the k-th output of the library covers.
SmaWindowEnd(k, p) == k + p - 1
RsiWindowEnd(k, p) == k + p
AdxWindowEnd(k, p) == k + 2 * p - 1

\* array[index] of an array of numbers of the given length.
ElementAt(index, length) ==
    IF index >= 0 /\ index < length THEN "number" ELSE "undefined"

\* index >= 0 && index < length ? array[index] : null
ElementOrNull(index, length) ==
    IF index >= 0 /\ index < length THEN "number" ELSE "null"

\* One element of alignedData.slice(longestLookback).map(...): i is the
\* index in the slice, n the number of aligned rows; windowEnds is the row
\* each attached value was computed up to.
IndicatorRow(i, n) ==
    LET baseIndex == i + longestLookback
        rsiIndex == baseIndex - rsiPeriod
        sma50Index == baseIndex - shortSmaPeriod
        adxIndex == baseIndex - adxPeriod * 2 + 1
    IN  [ index |-> baseIndex,
          windowEnds |->
            [ rsi |-> RsiWindowEnd(rsiIndex, rsiPeriod),
              sma50 |-> SmaWindowEnd(sma50Index, shortSmaPeriod),
              sma200 |-> SmaWindowEnd(i, longSmaPeriod),
              adx |-> AdxWindowEnd(adxIndex, adxPeriod) ],
          rsi |-> ElementOrNull(rsiIndex, RsiLength(n, rsiPeriod)),
          sma50 |-> ElementOrNull(sma50Index, SmaLength(n, shortSmaPeriod)),
          sma200 |-> IF i < SmaLength(n, longSmaPeriod) THEN "number" ELSE "null",
          adx |-> ElementOrNull(adxIndex, AdxLength(n, adxPeriod)) ]

\* calculateIndicators on n aligned rows: the error it throws, or the rows
\* it returns.
CalculateIndicators(n) ==
    IF n = 0
    THEN [threw |-> "No aligned data available", rows |-> <<>>]
    ELSE IF n < 200
    THEN [threw |-> "Insufficient historical data for indicators", rows |-> <<>>]
    ELSE [ threw |-> "",
           rows |-> SelectSeq([k \in 1..(n - longestLookback) |-> IndicatorRow(k - 1, n)],
                              LAMBDA d : d.rsi # "null" /\ d.sma50 # "null"
                                         /\ d.adx # "null") ]

\* calculateCurrentIndicators on n aligned rows: the error it throws, or
\* the snapshot it returns.
CalculateCurrentIndicators(n) ==
    IF n = 0
    THEN [ threw |-> "TypeError", currentIndicators |-> <<>> ]
    ELSE [ threw |-> "",
           currentIndicators |->
             [ rsi |-> ElementAt(RsiLength(n, rsiPeriod) - 1, RsiLength(n, rsiPeriod)),
               sma50 |-> ElementAt(SmaLength(n, shortSmaPeriod) - 1,
                                   SmaLength(n, shortSmaPeriod)),
               sma200 |-> ElementAt(SmaLength(n, longSmaPeriod) - 1,
                                    SmaLength(n, longSmaPeriod)),
               adx |-> ElementAt(AdxLength(n, adxPeriod) - 1, AdxLength(n, adxPeriod)),
               prevSma50 |-> ElementAt(SmaLength(n, shortSmaPeriod) - 2,
                                       SmaLength(n, shortSmaPeriod)),
               prevSma200 |-> ElementAt(SmaLength(n, longSmaPeriod) - 2,
                                        SmaLength(n, longSmaPeriod)) ] ]

InitIndicators ==
    /\ running = "indicators"
    /\ call \in { [fn |-> "indicators", program |-> "none", alignedRows |-> n,
                   result |-> <<>>, next |-> "none"] : n \in 0..MaxAlignedRows }
    /\ currentState = InitialState(PromptRules)
    /\ decision = NoDecision
    /\ marketHours = TRUE
    /\ cycles = 0
    /\ bt = BtIdle
    /\ inFlight = NoneInFlight

\* main() of the backtest: calculateIndicators(alignedData); an error ends
\* the run.
BacktestIndicators ==
    /\ running = "indicators"
    /\ call.program = "none"
    /\ LET r == CalculateIndicators(call.alignedRows) IN
       call' = [call EXCEPT !.program = "backtest", !.result = r,
                            !.next = IF r.threw # "" THEN "exit"
                                     ELSE "runAiHeuristicStrategy"]
    /\ UNCHANGED <<running, currentState, decision, marketHours, cycles, bt,
                   inFlight>>

\* runAiHeuristicStrategy entered with the rows: its prologue reads data[0].
StartStrategy ==
    /\ running = "indicators"
    /\ call.next = "runAiHeuristicStrategy"
    /\ call' = [call EXCEPT !.next = IF call.result.rows = <<>>
                                     THEN "TypeError" ELSE "loop"]
    /\ UNCHANGED <<running, currentState, decision, marketHours, cycles, bt,
                   inFlight>>

\* runRealTimeAnalysis: calculateCurrentIndicators, then makeRealTimeDecision
\* on what it returned; an error ends the cycle.
LiveIndicators ==
    /\ running = "indicators"
    /\ call.program = "none"
    /\ LET r == CalculateCurrentIndicators(call.alignedRows) IN
       call' = [call EXCEPT !.program = "live", !.result = r,
                            !.next = IF r.threw # "" THEN "cycle failed"
                                     ELSE "makeRealTimeDecision"]
    /\ UNCHANGED <<running, currentState, decision, marketHours, cycles, bt,
                   inFlight>>

NextIndicators == BacktestIndicators \/ StartStrategy \/ LiveIndicators

SpecIndicators == InitIndicators /\ [][NextIndicators]_vars

\* C14: calculateIndicators never returns an empty series to the backtest
\* loop: with too few aligned rows for one warmed-up row it throws, so
\* runAiHeuristicStrategy always finds a row 0.
C14_NoEmptySeries ==
    (running = "indicators" /\ call.program = "backtest") =>
        /\ call.result.threw = "" => Len(call.result.rows) >= 1
        /\ call.next # "TypeError"

\* The indicator fields of a snapshot or row that the decision logic reads.
AllDefined(d, fields) == \A f \in fields : d[f] = "number"

\* C15: no snapshot with an undefined or null indicator reaches the decision
\* logic: the live path calls makeRealTimeDecision only with rsi, adx,
\* sma50, sma200 and prevSma50 all defined, and every row the backtest keeps
\* has rsi, adx, sma50 and sma200.
C15_NoPartialSnapshot ==
    /\ (running = "indicators" /\ call.next = "makeRealTimeDecision") =>
          AllDefined(call.result.currentIndicators,
                     {"rsi", "adx", "sma50", "sma200", "prevSma50"})
    /\ (running = "indicators" /\ call.program = "backtest") =>
          \A k \in DOMAIN call.result.rows :
             AllDefined(call.result.rows[k], {"rsi", "adx", "sma50", "sma200"})

(***************************************************************************)
(* calculateMetrics: the drawdown series of an equity curve. A figure     *)
(* that needs a square root or a power is kept as the quantities it is     *)
(* computed from, except where the code yields exactly 0.                  *)
(***************************************************************************)
\* Longest equity curve offered.
MaxCurveLen == 4

\* Equity values of the curves offered.
EquityLevels == {99000, 99995, 100000, 105000, 110000}

\* simulationLog: one entry per row, dated by its index.
EquityCurves ==
    UNION { { [i \in 1..n |-> [date |-> i - 1, equity |-> e[i]]] :
                e \in [1..n -> EquityLevels] } : n \in 0..MaxCurveLen }

Max(a, b) == IF a >= b THEN a ELSE b

RatMin(a, b) == IF RatLeq(a, b) THEN a ELSE b

\* Variant: the peak never moves from the initial capital.
PeakEquityFixed(simulationLog, capital, i) == capital

RECURSIVE PeakEquity(_, _, _)
\* peakEquity after the first i entries: it starts at the initial capital.
PeakEquity(simulationLog, capital, i) ==
    IF i = 0 THEN capital
    ELSE Max(PeakEquity(simulationLog, capital, i - 1), simulationLog[i].equity)

\* The element the map callback returns for entry i.
DrawdownEntry(simulationLog, capital, i) ==
    LET day == simulationLog[i]
        peakEquity == PeakEquity(simulationLog, capital, i)
    IN  [ date |-> day.date, equity |-> day.equity, peakEquity |-> peakEquity,
          drawdown |-> Rat(day.equity - peakEquity, peakEquity) ]

RECURSIVE MaxDrawdown(_, _, _)
\* maxDrawdown after the first i entries: it starts at 0.
MaxDrawdown(simulationLog, capital, i) ==
    IF i = 0 THEN RatInt(0)
    ELSE RatMin(MaxDrawdown(simulationLog, capital, i - 1),
                DrawdownEntry(simulationLog, capital, i).drawdown)

\* The number 0 as a ratio figure, and a figure whose value needs a square
\* root or a power: it is kept as the quantities it is computed from.
ZeroFigure == [kind |-> "number", value |-> RatInt(0)]

\* dailyReturns: equity_i / equity_(i-1) - 1 for i >= 1.
DailyReturns(simulationLog) ==
    [ i \in 1..(Len(simulationLog) - 1) |->
        RatSub(Rat(simulationLog[i + 1].equity, simulationLog[i].equity),
               RatInt(1)) ]

\* sharpeRatio: 0 unless the annualised deviation is > 0, which needs two
\* daily returns that differ (with no return at all it is NaN, not > 0).
SharpeRatio(simulationLog) ==
    LET dailyReturns == DailyReturns(simulationLog) IN
    IF \A i, j \in DOMAIN dailyReturns : dailyReturns[i] = dailyReturns[j]
    THEN ZeroFigure
    ELSE [kind |-> "sharpe", returns |-> dailyReturns]

\* cagr: 0 unless the log spans a positive time.
Cagr(simulationLog, capital) ==
    LET finalEquity == simulationLog[Len(simulationLog)].equity
        span == simulationLog[Len(simulationLog)].date - simulationLog[1].date
    IN  IF span > 0
        THEN [kind |-> "growth", ratio |-> Rat(finalEquity, capital), span |-> span]
        ELSE ZeroFigure

\* The part of calculateMetrics after the length test.
MetricsOf(simulationLog, capital) ==
    [ finalEquity |-> simulationLog[Len(simulationLog)].equity,
      cagr |-> Cagr(simulationLog, capital),
      maxDrawdown |-> MaxDrawdown(simulationLog, capital, Len(simulationLog)),
      sharpeRatio |-> SharpeRatio(simulationLog),
      drawdowns |-> [i \in 1..Len(simulationLog) |->
                       DrawdownEntry(simulationLog, capital, i)] ]

\* What calculateMetrics returns for fewer than 2 points.
DegenerateMetrics(capital) ==
    [ finalEquity |-> capital, cagr |-> ZeroFigure, maxDrawdown |-> RatInt(0),
      sharpeRatio |-> ZeroFigure, drawdowns |-> <<>> ]

\* Variant: only the empty log takes the early return.
CalculateMetricsFromOnePoint(simulationLog, capital) ==
    IF Len(simulationLog) < 1
    THEN DegenerateMetrics(capital)
    ELSE MetricsOf(simulationLog, capital)

\* calculateMetrics(simulationLog, trades, initialCapital, riskFreeRate)
CalculateMetrics(simulationLog, capital) ==
    IF Len(simulationLog) < 2
    THEN DegenerateMetrics(capital)
    ELSE MetricsOf(simulationLog, capital)

InitMetrics ==
    /\ running = "calculateMetrics"
    /\ call \in { [fn |-> "calculateMetrics", simulationLog |-> log,
                   returned |-> FALSE, result |-> <<>>] : log \in EquityCurves }
    /\ currentState = InitialState(PromptRules)
    /\ decision = NoDecision
    /\ marketHours = TRUE
    /\ cycles = 0
    /\ bt = BtIdle
    /\ inFlight = NoneInFlight

\* main(): calculateMetrics(simulationLog, trades, CONFIG.initialCapital, ...)
Metrics ==
    /\ running = "calculateMetrics"
    /\ ~call.returned
    /\ call' = [call EXCEPT !.returned = TRUE,
                            !.result = CalculateMetrics(call.simulationLog,
                                                        initialCapital)]
    /\ UNCHANGED <<running, currentState, decision, marketHours, cycles, bt,
                   inFlight>>

NextMetrics == Metrics

SpecMetrics == InitMetrics /\ [][NextMetrics]_vars

\* calculateMetrics has returned for a curve of at least two points.
MetricsReturned ==
    /\ running = "calculateMetrics"
    /\ call.returned
    /\ Len(call.simulationLog) >= 2

\* The largest of a set of amounts; the first i equities of the curve.
HighestOf(values) == CHOOSE m \in values : \A v \in values : v <= m

EquitiesUpTo(i) == {call.simulationLog[k].equity : k \in 1..i}

\* The drawdown arithmetic common to both readings of the peak.
DrawdownsFollowPeaks ==
    LET d == call.result.drawdowns IN
    /\ Len(d) = Len(call.simulationLog)
    /\ \A i \in DOMAIN d :
         /\ d[i].equity = call.simulationLog[i].equity
         /\ d[i].drawdown = Rat(d[i].equity - d[i].peakEquity, d[i].peakEquity)
         /\ RatLeq(call.result.maxDrawdown, d[i].drawdown)
    /\ \E i \in DOMAIN d : d[i].drawdown = call.result.maxDrawdown
    /\ RatLeq(call.result.maxDrawdown, RatInt(0))

\* C16 as stated: the peak is the running maximum of the curve alone, so
\* the first drawdown is 0.
C16_PeakOfCurveAlone ==
    MetricsReturned =>
        LET d == call.result.drawdowns IN
        /\ DrawdownsFollowPeaks
        /\ \A i \in DOMAIN d : d[i].peakEquity = HighestOf(EquitiesUpTo(i))
        /\ d[1].drawdown = RatInt(0)

\* C16: for every equity curve of at least 2 points the peak is the running
\* maximum of the initial capital and the curve so far, drawdown_i =
\* (equity_i - peak_i) / peak_i, and maxDrawdown is the least drawdown, which
\* is <= 0; the first drawdown is 0 exactly when the curve starts at or
\* above the initial capital.
C16_PeakFromCapital ==
    MetricsReturned =>
        LET d == call.result.drawdowns IN
        /\ DrawdownsFollowPeaks
        /\ \A i \in DOMAIN d :
             d[i].peakEquity = HighestOf(EquitiesUpTo(i) \cup {initialCapital})
        /\ d[1].drawdown = RatInt(0)
             <=> call.simulationLog[1].equity >= initialCapital

\* The curve [99995, 110000, 99000, 105000]: the first point is already
\* below the capital of 100000, the deepest drawdown is -10%.
C16_Witness ==
    /\ MetricsReturned
    /\ Len(call.simulationLog) = 4
    /\ [i \in 1..4 |-> call.simulationLog[i].equity]
         = <<99995, 110000, 99000, 105000>>
    /\ [i \in 1..4 |-> call.result.drawdowns[i].peakEquity]
         = <<100000, 110000, 110000, 110000>>
    /\ call.result.drawdowns[1].drawdown = Rat(-1, 20000)
    /\ call.result.maxDrawdown = Rat(-1, 10)

(***************************************************************************)
(* generateTradeAnalysis: round trips and win rate of a trade ledger.      *)
(***************************************************************************)
\* Longest ledger offered.
MaxLedgerLen == 4

\* String.prototype.startsWith
StartsWith(s, prefix) ==
    Len(s) >= Len(prefix) /\ SubSeq(s, 1, Len(prefix)) = prefix

\* Ledger records of 10 shares of the long proxy at one of two prices.
LedgerTrades ==
    { [ date |-> 0, action |-> action, symbol |-> longLeveragedEtf,
        shares |-> 10, price |-> price ] :
        action \in {"BUY", "BUY (Default)", "SELL (Entry)", "SELL (STOP LOSS)"},
        price \in {90, 110} }

Ledgers == UNION { [1..n -> LedgerTrades] : n \in 0..MaxLedgerLen }

\* The analysis object before the ledger is walked; lastTrade is <<>> for
\* null and <<t>> for the remembered purchase t.
EmptyAnalysis(trades) ==
    [ totalTrades |-> Len(trades), profitableTrades |-> 0, totalProfit |-> 0,
      tradeDetails |-> <<>>, lastTrade |-> <<>> ]

RECURSIVE WalkLedger(_, _)
\* trades.forEach over the first i records.
WalkLedger(trades, i) ==
    IF i = 0 THEN EmptyAnalysis(trades)
    ELSE LET analysis == WalkLedger(trades, i - 1)
             trade == trades[i]
         IN  IF StartsWith(trade.action, "BUY")
             THEN [ analysis EXCEPT
                      !.lastTrade = << [ symbol |-> trade.symbol,
                                         buyPrice |-> trade.price,
                                         shares |-> trade.shares ] >> ]
             ELSE IF StartsWith(trade.action, "SELL") /\ analysis.lastTrade # <<>>
             THEN LET lastTrade == analysis.lastTrade[1]
                      profit == (trade.price - lastTrade.buyPrice) * lastTrade.shares
                      isProfitable == profit > 0
                  IN  [ analysis EXCEPT
                          !.tradeDetails = Append(@, [ buyPrice |-> lastTrade.buyPrice,
                                                       sellPrice |-> trade.price,
                                                       profit |-> profit,
                                                       isProfitable |-> isProfitable ]),
                          !.profitableTrades = IF isProfitable THEN @ + 1 ELSE @,
                          !.totalProfit = @ + profit,
                          !.lastTrade = <<>> ]
             ELSE analysis

\* a / b * 100 in JavaScript for counts a and b: 0 / 0 is NaN.
PercentOf(a, b) ==
    IF b = 0 THEN (IF a = 0 THEN "NaN" ELSE "Infinity") ELSE Rat(a * 100, b)

\* generateTradeAnalysis(trades): the counts and the win rate.
GenerateTradeAnalysis(trades) ==
    LET analysis == WalkLedger(trades, Len(trades)) IN
    [ totalTrades |-> analysis.totalTrades,
      profitableTrades |-> analysis.profitableTrades,
      tradeDetails |-> analysis.tradeDetails,
      winRate |-> PercentOf(analysis.profitableTrades, analysis.totalTrades) ]

InitAnalysis ==
    /\ running = "generateTradeAnalysis"
    /\ call \in { [fn |-> "generateTradeAnalysis", trades |-> trades,
                   returned |-> FALSE, result |-> <<>>] : trades \in Ledgers }
    /\ currentState = InitialState(PromptRules)
    /\ decision = NoDecision
    /\ marketHours = TRUE
    /\ cycles = 0
    /\ bt = BtIdle
    /\ inFlight = NoneInFlight

\* The report generators calling generateTradeAnalysis(trades).
Analyse ==
    /\ running = "generateTradeAnalysis"
    /\ ~call.returned
    /\ call' = [call EXCEPT !.returned = TRUE,
                            !.result = GenerateTradeAnalysis(call.trades)]
    /\ UNCHANGED <<running, currentState, decision, marketHours, cycles, bt,
                   inFlight>>

NextAnalysis == Analyse

SpecAnalysis == InitAnalysis /\ [][NextAnalysis]_vars

\* The round trips of the ledger: a BUY at i and the next SELL at j, with
\* no other BUY or SELL in between.
RoundTrips ==
    LET trades == call.trades
        isBuy(k) == trades[k].action \in BuyActions
        isSell(k) == trades[k].action \in SellActions
    IN  { <<i, j>> \in (DOMAIN trades) \X (DOMAIN trades) :
            /\ i < j /\ isBuy(i) /\ isSell(j)
            /\ \A k \in (i + 1)..(j - 1) : ~isBuy(k) /\ ~isSell(k) }

ProfitableRoundTrips ==
    {p \in RoundTrips : call.trades[p[2]].price > call.trades[p[1]].price}

\* C17: the win rate generateTradeAnalysis reports is 100 times the number
\* of BUY->SELL round trips with positive profit over the number of
\* BUY->SELL round trips.
C17_WinRateOverRoundTrips ==
    ( /\ running = "generateTradeAnalysis"
      /\ call.returned
      /\ RoundTrips # {} ) =>
        call.result.winRate = Rat(100 * Cardinality(ProfitableRoundTrips),
                                  Cardinality(RoundTrips))

(***************************************************************************)
(* The live program with its triggers: runRealTimeAnalysis is an async     *)
(* function started by the cron job, by main() and by the 'r' command, and *)
(* it suspends at every await. One action per stretch between awaits.      *)
(***************************************************************************)
\* Most analysis cycles started in one run of the program.
MaxStarted == 3

\* node trading_monitor.js <mode>
Modes == {"scheduled", "manual", "once"}

\* The rule set in force in these runs (no market-hours restriction).
OverlapRules == AiRules(TRUE, TRUE, TRUE, TRUE, TRUE, TRUE, Rat(10, 100), FALSE)

\* Snapshots a cycle may compute: oversold or neutral, the long proxy at
\* 100 or 20% lower.
OverlapSnapshots ==
    { Snapshot(rsi, 30, 20, 2000000, 100, 95, 95, 90, tqqq, 100) :
        rsi \in {5, 50}, tqqq \in {80, 100} }

\* The cycles a mode can start next: the cron job and the initial run of
\* main() in scheduled mode, the 'r' command in manual mode, the single
\* run of mode once.
Triggers ==
    LET initialRan == \E i \in DOMAIN inFlight : inFlight[i].trigger = "initial"
    IN  IF running = "scheduled"
        THEN {"cron"} \cup (IF initialRan THEN {} ELSE {"initial"})
        ELSE IF running = "manual" THEN {"manual"}
        ELSE IF running = "once" /\ ~initialRan THEN {"initial"}
        ELSE {}

InitOverlap ==
    /\ running \in Modes
    /\ currentState = InitialState(OverlapRules)
    /\ decision = NoDecision
    /\ marketHours = TRUE
    /\ cycles = 0
    /\ bt = BtIdle
    /\ call = NoCall
    /\ inFlight = NoneInFlight

\* A trigger calls runRealTimeAnalysis(): the call runs up to its first
\* await (fetchRealTimeData) and returns a pending promise to the trigger.
StartCycle ==
    /\ running \in Modes
    /\ Len(inFlight) < MaxStarted
    /\ \E trigger \in Triggers :
         inFlight' = Append(inFlight, [ trigger |-> trigger, pc |-> "fetching",
                                        decision |-> NoDecision ])
    /\ UNCHANGED <<running, currentState, decision, marketHours, cycles, bt, call>>

\* The data has arrived: calculateCurrentIndicators and makeRealTimeDecision
\* run, reading currentState; the cycle then awaits generateDetailedReport.
CycleDecide(i) ==
    /\ running \in Modes
    /\ inFlight[i].pc = "fetching"
    /\ \E indicators \in OverlapSnapshots :
         inFlight' = [inFlight EXCEPT
                        ![i].pc = "reporting",
                        ![i].decision = MakeRealTimeDecision(indicators, TRUE)]
    /\ UNCHANGED <<running, currentState, decision, marketHours, cycles, bt, call>>

\* The report is written: updatePortfolioState applies the cycle's decision
\* to currentState, then awaits saveState and the notification.
CycleUpdate(i) ==
    /\ running \in Modes
    /\ inFlight[i].pc = "reporting"
    /\ Representable(currentState.positionShares)
    /\ Representable(currentState.currentEquity)
    /\ currentState' = UpdatePortfolioState(inFlight[i].decision)
    /\ decision' = inFlight[i].decision
    /\ cycles' = cycles + 1
    /\ inFlight' = [inFlight EXCEPT ![i].pc = "saving"]
    /\ UNCHANGED <<running, marketHours, bt, call>>

\* The state is saved and the alert sent: the promise settles and the
\* cycle's local decision is gone.
CycleFinish(i) ==
    /\ running \in Modes
    /\ inFlight[i].pc = "saving"
    /\ inFlight' = [inFlight EXCEPT ![i].pc = "done", ![i].decision = NoDecision]
    /\ UNCHANGED <<running, currentState, decision, marketHours, cycles, bt, call>>

NextOverlap ==
    \/ StartCycle
    \/ \E i \in DOMAIN inFlight : CycleDecide(i)
    \/ \E i \in DOMAIN inFlight : CycleUpdate(i)
    \/ \E i \in DOMAIN inFlight : CycleFinish(i)

SpecOverlap == InitOverlap /\ [][NextOverlap]_vars

\* The cycles that have read currentState and have not yet completed
\* their load-mutate-store.
CyclesInCriticalPart ==
    {i \in DOMAIN inFlight : inFlight[i].pc \in {"reporting", "saving"}}

\* C18: at most one analysis cycle is in flight at any time: no cycle reads
\* currentState while another cycle that has read it has not yet completed
\* its update and save.
C18_OneCycleInFlight ==
    running \in Modes => Cardinality(CyclesInCriticalPart) <= 1

(***************************************************************************)
(* Start-up of the live program: initialize() obtains the rules, then      *)
(* loadState() merges the persisted state file into currentState.          *)
(***************************************************************************)
\* aiRules: null of the freshly declared currentState.
NullRules == [null |-> TRUE]

\* Object.assign(target, source): every own field of source replaces or
\* adds the field of that name in target.
ObjectAssign(target, source) ==
    [ f \in (DOMAIN target) \cup (DOMAIN source) |->
        IF f \in DOMAIN source THEN source[f] ELSE target[f] ]

\* What saveState() of an earlier run has written: the whole currentState,
\* rules included.
SavedStates == {p \in GuardPositions : p.daysInPosition \in {0, maxHoldPeriod - 1}}

\* current_state.json when the program starts: absent; present but not
\* readable as JSON; readable but not a position state (a lone position
\* field); or a state saved by an earlier run.
StateFiles ==
    { [kind |-> "absent", content |-> <<>>],
      [kind |-> "unreadable", content |-> <<>>],
      [kind |-> "invalid", content |-> [position |-> longLeveragedEtf]] }
    \cup { [kind |-> "saved", content |-> p] : p \in SavedStates }

\* What getAIHeuristics() does when initialize() calls it: it returns a
\* rule set or throws.
HeuristicsOutcomes ==
    { [threw |-> TRUE, rules |-> NullRules] }
    \cup { [threw |-> FALSE, rules |-> r] : r \in GuardRules }

\* loadState() acting on currentState value state.
LoadState(state, file) ==
    IF file.kind \in {"saved", "invalid"}
    THEN ObjectAssign(state, file.content)
    ELSE state

InitStartup ==
    /\ running = "initialize"
    /\ currentState = InitialState(NullRules)
    /\ call \in { [ fn |-> "initialize", file |-> f, rules |-> NullRules,
                    returned |-> "pending" ] : f \in StateFiles }
    /\ decision = NoDecision
    /\ marketHours = TRUE
    /\ cycles = 0
    /\ bt = BtIdle
    /\ inFlight = NoneInFlight

\* initialize(): false if getAIHeuristics threw, otherwise the rules are
\* stored, the state file is merged in and the result is true; call.rules
\* keeps what getAIHeuristics returned.
Initialize ==
    /\ running = "initialize"
    /\ call.returned = "pending"
    /\ \E outcome \in HeuristicsOutcomes :
         IF outcome.threw
         THEN /\ call' = [call EXCEPT !.returned = "false"]
              /\ UNCHANGED currentState
         ELSE /\ call' = [call EXCEPT !.returned = "true",
                                       !.rules = outcome.rules]
              /\ currentState' =
                   LoadState([currentState EXCEPT !.aiRules = outcome.rules],
                             call.file)
    /\ UNCHANGED <<running, decision, marketHours, cycles, bt, inFlight>>

\* main() goes on after initialize() returned true: the first analysis
\* cycle of the run.
FirstCycle ==
    /\ running = "initialize"
    /\ call.returned = "true"
    /\ cycles = 0
    /\ \E indicators \in GuardSnapshots, inHours \in BOOLEAN :
         LET dec == MakeRealTimeDecision(indicators, inHours) IN
         /\ decision' = dec
         /\ marketHours' = inHours
         /\ currentState' = UpdatePortfolioState(dec)
    /\ cycles' = cycles + 1
    /\ UNCHANGED <<running, bt, call, inFlight>>

NextStartup == Initialize \/ FirstCycle

SpecStartup == InitStartup /\ [][NextStartup]_vars

\* C19: when the state file exists but cannot be read or is not a valid
\* position state, initialize() does not succeed and no analysis cycle is
\* run on the default state.
C19_CorruptStateIsFatal ==
    (running = "initialize" /\ call.file.kind \in {"unreadable", "invalid"}) =>
        /\ call.returned # "true"
        /\ cycles = 0

(***************************************************************************)
(* getAIHeuristics and the first use of what it returned. A parsed object  *)
(* is a record that has only the fields the response contained; reading a  *)
(* missing field yields undefined, modelled as the empty tuple.            *)
(***************************************************************************)
\* object[f]: <<v>> for a present field, <<>> for undefined.
Field(object, f) == IF f \in DOMAIN object THEN <<object[f]>> ELSE <<>>

\* x > field and x < field for a number x: false against undefined.
JsGreater(x, field) == field # <<>> /\ x > field[1]
JsLess(x, field) == field # <<>> /\ x < field[1]

\* A flag used as a condition: undefined is falsy.
Truthy(field) == field # <<>> /\ field[1]

\* The object with only the fields named in keep.
Restrict(object, keep) == [f \in keep |-> object[f]]

\* The fields each program reads from the rule set.
RequiredFields(program) ==
    IF program = "backtest"
    THEN {"min_adx_threshold", "max_vix_threshold", "bullish_confirmation",
          "bearish_confirmation"}
    ELSE {"min_adx_threshold", "max_vix_threshold", "min_volume_threshold",
          "bullish_confirmation", "bearish_confirmation", "risk_management",
          "market_hours_only"}

\* What the advisory model may answer: text that is not JSON, the prompt's
\* rule set, that rule set with one field left out, or nothing (in which
\* case "{}" is parsed).
AdvisoryResponses ==
    { [json |-> FALSE, object |-> <<>>] }
    \cup { [json |-> TRUE, object |-> Restrict(PromptRules, DOMAIN PromptRules \ missing)] :
             missing \in {{}} \cup {{f} : f \in DOMAIN PromptRules}
                         \cup {DOMAIN PromptRules} }

\* getAIHeuristics: JSON.parse of the response, returned as it is.
GetAIHeuristics(response) ==
    IF response.json
    THEN [threw |-> FALSE, rules |-> response.object]
    ELSE [threw |-> TRUE, rules |-> <<>>]

\* The entry-signal part of one backtest row under rule set aiRules: the
\* signal, "null" for none, or "TypeError" when a confirmation object is
\* missing.
RowEntrySignal(aiRules, day) ==
    LET adxCheck == JsGreater(day.adx, Field(aiRules, "min_adx_threshold"))
        vixCheck == JsLess(day.vixClose, Field(aiRules, "max_vix_threshold"))
        flag(side, name) == Truthy(Field(aiRules[side], name))
    IN  IF day.rsi < rsiOversold
        THEN IF "bullish_confirmation" \notin DOMAIN aiRules THEN "TypeError"
             ELSE IF /\ adxCheck /\ vixCheck
                     /\ (flag("bullish_confirmation", "require_price_above_sma50")
                           => day.qqqClose > day.sma50)
                     /\ (flag("bullish_confirmation", "require_price_above_sma200")
                           => day.qqqClose > day.sma200)
             THEN longLeveragedEtf ELSE "null"
        ELSE IF day.rsi > rsiOverbought
        THEN IF "bearish_confirmation" \notin DOMAIN aiRules THEN "TypeError"
             ELSE IF /\ adxCheck /\ vixCheck
                     /\ (flag("bearish_confirmation", "require_price_below_sma50")
                           => day.qqqClose < day.sma50)
                     /\ (flag("bearish_confirmation", "require_price_below_sma200")
                           => day.qqqClose < day.sma200)
             THEN shortLeveragedEtf ELSE "null"
        ELSE "null"

\* makeRealTimeDecision in the initial position state (nothing held) under
\* rule set aiRules: the decision, or "TypeError" when a confirmation object
\* is missing.
FirstDecision(aiRules, indicators, inHours) ==
    LET common == << JsGreater(indicators.adx, Field(aiRules, "min_adx_threshold")),
                     JsLess(indicators.vixClose, Field(aiRules, "max_vix_threshold")),
                     JsGreater(indicators.volume,
                               Field(aiRules, "min_volume_threshold")) >>
        flag(side, name) == Truthy(Field(aiRules[side], name))
        bullish == common \o
            << flag("bullish_confirmation", "require_price_above_sma50")
                 => indicators.qqqClose > indicators.sma50,
               flag("bullish_confirmation", "require_price_above_sma200")
                 => indicators.qqqClose > indicators.sma200,
               flag("bullish_confirmation", "require_rising_sma")
                 => indicators.sma50 > indicators.prevSma50 >>
        bearish == common \o
            << flag("bearish_confirmation", "require_price_below_sma50")
                 => indicators.qqqClose < indicators.sma50,
               flag("bearish_confirmation", "require_price_below_sma200")
                 => indicators.qqqClose < indicators.sma200,
               flag("bearish_confirmation", "require_falling_sma")
                 => indicators.sma50 < indicators.prevSma50 >>
    IN  IF Truthy(Field(aiRules, "market_hours_only")) /\ ~inHours THEN "HOLD"
        ELSE IF indicators.rsi < rsiOversold
        THEN IF "bullish_confirmation" \notin DOMAIN aiRules THEN "TypeError"
             ELSE IF EnoughChecks(PassedChecks(bullish)) THEN "BUY" ELSE "HOLD"
        ELSE IF indicators.rsi > rsiOverbought
        THEN IF "bearish_confirmation" \notin DOMAIN aiRules THEN "TypeError"
             ELSE IF EnoughChecks(PassedChecks(bearish)) THEN "BUY" ELSE "HOLD"
        ELSE "HOLD"

InitRules ==
    /\ running = "getAIHeuristics"
    /\ call \in { [fn |-> "getAIHeuristics", program |-> "none", response |-> r,
                   aiRules |-> <<>>, outcome |-> "pending",
                   evaluated |-> <<>>, result |-> "none"] :
                  r \in AdvisoryResponses }
    /\ currentState = InitialState(NullRules)
    /\ decision = NoDecision
    /\ marketHours = TRUE
    /\ cycles = 0
    /\ bt = BtIdle
    /\ inFlight = NoneInFlight

\* main() of the backtest or initialize() of the live program calling
\* getAIHeuristics: a throw ends the program, anything parsed is kept.
ReceiveRules ==
    /\ running = "getAIHeuristics"
    /\ call.outcome = "pending"
    /\ \E program \in {"backtest", "live"} :
         LET r == GetAIHeuristics(call.response) IN
         /\ call' = [call EXCEPT !.program = program,
                                 !.aiRules = r.rules,
                                 !.outcome = IF r.threw THEN "threw" ELSE "accepted"]
         /\ currentState' = IF program = "live" /\ ~r.threw
                             THEN [currentState EXCEPT !.aiRules = r.rules]
                             ELSE currentState
    /\ UNCHANGED <<running, decision, marketHours, cycles, bt, inFlight>>

\* runAiHeuristicStrategy: the first row is evaluated under the rules kept.
EvaluateRow ==
    /\ running = "getAIHeuristics"
    /\ call.program = "backtest"
    /\ call.outcome = "accepted"
    /\ \E day \in BacktestRows(0) :
         call' = [call EXCEPT
                    !.evaluated = day,
                    !.result = RowEntrySignal(call.aiRules, day),
                    !.outcome = IF RowEntrySignal(call.aiRules, day) = "TypeError"
                                THEN "TypeError" ELSE "row processed"]
    /\ UNCHANGED <<running, currentState, decision, marketHours, cycles, bt,
                   inFlight>>

\* runRealTimeAnalysis: the first decision is computed under the rules kept.
EvaluateDecision ==
    /\ running = "getAIHeuristics"
    /\ call.program = "live"
    /\ call.outcome = "accepted"
    /\ \E indicators \in GuardSnapshots, inHours \in BOOLEAN :
         LET first == FirstDecision(currentState.aiRules, indicators, inHours) IN
         call' = [call EXCEPT
                    !.evaluated = indicators,
                    !.result = first,
                    !.outcome = IF first = "TypeError"
                                THEN "TypeError" ELSE "decision computed"]
    /\ UNCHANGED <<running, currentState, decision, marketHours, cycles, bt,
                   inFlight>>

NextRules == ReceiveRules \/ EvaluateRow \/ EvaluateDecision

SpecRules == InitRules /\ [][NextRules]_vars

\* The response is JSON and has every field the program reads.
WellFormedRules ==
    /\ call.response.json
    /\ RequiredFields(call.program) \subseteq DOMAIN call.response.object

\* C20: a rule set that lacks a required field is rejected before anything
\* is evaluated: no backtest row is processed with it and no live decision
\* is computed from it.
C20_MalformedRulesRejected ==
    (running = "getAIHeuristics" /\ call.program # "none" /\ ~WellFormedRules) =>
        call.outcome \notin {"row processed", "decision computed"}

\* calculateMetrics has returned for a curve of fewer than two points.
DegenerateReturned ==
    /\ running = "calculateMetrics"
    /\ call.returned
    /\ Len(call.simulationLog) < 2

\* C21: for an equity curve of 0 or 1 points calculateMetrics returns a
\* result with finalEquity = initialCapital and cagr, maxDrawdown and
\* sharpeRatio all 0.
C21_DegenerateCurve ==
    DegenerateReturned =>
        /\ call.result.finalEquity = initialCapital
        /\ call.result.cagr = ZeroFigure
        /\ call.result.maxDrawdown = RatInt(0)
        /\ call.result.sharpeRatio = ZeroFigure

\* A single point of 99000, below the capital: the result still reports the
\* capital and no drawdown.
C21_Witness ==
    /\ DegenerateReturned
    /\ Len(call.simulationLog) = 1
    /\ call.simulationLog[1].equity = 99000
    /\ call.result.finalEquity = 100000
    /\ call.result.drawdowns = <<>>

(***************************************************************************)
(* The backtest over enough rows for the hold limit to be reached: few     *)
(* distinct rows, many of them.                                            *)
(***************************************************************************)
\* Rows of the long backtest.
MaxHoldRows == 12

\* The rule set of the long backtest: both moving-average confirmations of
\* the short window are required.
HoldRules == CHOOSE rules \in BacktestRules :
                 rules.bullish_confirmation.require_price_above_sma50

\* Rows offered as row number date: oversold or neutral, the long proxy at
\* 100 or 20% lower; every confirmation passes.
HoldRows(date) ==
    { Day(date, rsi, 25, 20, 100, 95, 95, tqqq, 100) :
        rsi \in {5, 50}, tqqq \in {80, 100} }

InitHold ==
    /\ running = "long backtest"
    /\ bt \in {BtStart(HoldRules, day0) : day0 \in HoldRows(0)}
    /\ currentState = InitialState(PromptRules)
    /\ decision = NoDecision
    /\ marketHours = TRUE
    /\ cycles = 0
    /\ call = NoCall
    /\ inFlight = NoneInFlight

\* One iteration of "for (const day of data)".
HoldRow ==
    /\ running = "long backtest"
    /\ bt.row < MaxHoldRows
    /\ Representable(bt.shares)
    /\ \E day \in (IF bt.row = 0 THEN {bt.day} ELSE HoldRows(bt.row)) :
         bt' = BtBody(day)
    /\ UNCHANGED <<running, currentState, decision, marketHours, cycles, call,
                   inFlight>>

NextHold == HoldRow

SpecHold == InitHold /\ [][NextHold]_vars

\* Record i of the ledger closes a leveraged trade: it follows the BUY that
\* opened the trade.
ClosesTrade(i) ==
    /\ i > 1
    /\ bt.trades[i].action \in SellActions \ {"SELL (Entry)"}
    /\ bt.trades[i - 1].action = "BUY"

\* The trade closed by record i was under its stop-loss level at the close,
\* respectively at or past the hold limit.
ClosedUnderStop(i) ==
    bt.trades[i].price * stopLossPercentDen
      < bt.trades[i - 1].price * (stopLossPercentDen - stopLossPercentNum)

ClosedAtLimit(i) == bt.trades[i].date - bt.trades[i - 1].date >= maxHoldPeriod

\* C22: an exit on a row where both the stop-loss condition and the time
\* condition hold is recorded as the stop loss, not the time stop.
C22_StopLossBeforeTimeStop ==
    running = "long backtest" =>
        \A i \in DOMAIN bt.trades :
           (ClosesTrade(i) /\ ClosedUnderStop(i) /\ ClosedAtLimit(i))
              => bt.trades[i].action = "SELL (STOP LOSS)"


\* The equity-curve log shows a leveraged instrument on row i.
LoggedLeveraged(i) == IsLeveragedEtf(bt.simulationLog[i].position)

\* C25: a leveraged position entered on row k is out by row k + maxHoldPeriod
\* whenever the data has that row: among any maxHoldPeriod + 1 consecutive
\* rows of the equity-curve log one shows an instrument that is not leveraged.
C25_BoundedHolding ==
    running = "long backtest" =>
        \A i \in DOMAIN bt.simulationLog :
           i + maxHoldPeriod <= Len(bt.simulationLog)
              => \E j \in i..(i + maxHoldPeriod) : ~LoggedLeveraged(j)

\* A position entered on the first row is held for maxHoldPeriod rows and is
\* closed by the time stop on the row after them.
C25_Witness ==
    /\ running = "long backtest"
    /\ Len(bt.simulationLog) = maxHoldPeriod + 1
    /\ \A i \in 1..maxHoldPeriod : LoggedLeveraged(i)
    /\ bt.simulationLog[maxHoldPeriod + 1].position = safeEtf
    /\ Len(bt.trades) = 4
    /\ bt.trades[3].action = "SELL (TIME STOP)"


(***************************************************************************)
(* The loop body of the backtest and makeRealTimeDecision on the same      *)
(* snapshot, position and thresholds.                                      *)
(***************************************************************************)
\* The thresholds both paths are given: the stop loss of the live rule set
\* is the backtest's CONFIG.riskManagement.stopLossPercent, and the
\* market-hours guard is off.
ParityRules ==
    AiRules(TRUE, FALSE, TRUE, TRUE, FALSE, TRUE,
            Rat(stopLossPercentNum, stopLossPercentDen), FALSE)

\* Positions both paths are started in: the safe ETF, or a proxy entered at
\* 100 and held for days rows.
ParityPositions ==
    { [held |-> safeEtf, entryPrice |-> 0, days |-> 0] }
      \cup { [held |-> held, entryPrice |-> 100, days |-> days] :
               held \in {longLeveragedEtf, shortLeveragedEtf},
               days \in {0, 5, maxHoldPeriod - 1} }

\* currentState of the live path holding 1000 shares of position p.
ParityLiveState(p) ==
    [ InitialState(ParityRules) EXCEPT
        !.position = p.held,
        !.positionShares = RatInt(1000),
        !.entryPrice = p.entryPrice,
        !.daysInPosition = p.days,
        !.isLeveragedPosition = IsLeveragedEtf(p.held) ]

\* The locals of runAiHeuristicStrategy holding the same position.
ParityLocals(p) ==
    [ BtIdle EXCEPT
        !.aiRules = ParityRules,
        !.cash = RatInt(0),
        !.currentPosition = p.held,
        !.shares = RatInt(1000),
        !.entryPrice = p.entryPrice,
        !.daysInTrade = p.days,
        !.isInLeveragedTrade = IsLeveragedEtf(p.held) ]

\* Snapshots shown to both paths: QQQ at 100 above a rising SMA50 or below
\* a falling one, the held proxy at 85, 100 or 110.
ParitySnapshots ==
    { Snapshot(rsi, adx, 20, 2000000, 100, sma50, sma50, 100, proxy, proxy) :
        rsi \in {5, 50, 95}, adx \in {15, 25}, sma50 \in {95, 105},
        proxy \in {85, 100, 110} }

\* The row of the historical table with the values of a live snapshot.
RowOf(indicators) ==
    Day(0, indicators.rsi, indicators.adx, indicators.vixClose,
        indicators.qqqClose, indicators.sma50, indicators.sma200,
        indicators.tqqqClose, indicators.sqqqClose)

\* The action a decision of makeRealTimeDecision stands for.
LiveAction(dec) ==
    IF dec.decision = "BUY" /\ dec.targetSymbol = longLeveragedEtf
    THEN "enter long"
    ELSE IF dec.decision = "BUY" /\ dec.targetSymbol = shortLeveragedEtf
    THEN "enter short"
    ELSE IF dec.decision = "SELL" THEN "exit to safe"
    ELSE "stay"

\* The action the loop body took between the locals before and after.
RowAction(before, after) ==
    IF after.currentPosition = before.currentPosition THEN "stay"
    ELSE IF after.currentPosition = longLeveragedEtf THEN "enter long"
    ELSE IF after.currentPosition = shortLeveragedEtf THEN "enter short"
    ELSE "exit to safe"

InitParity ==
    /\ running = "both paths"
    /\ \E p \in ParityPositions :
         /\ currentState = ParityLiveState(p)
         /\ bt = ParityLocals(p)
    /\ decision = NoDecision
    /\ marketHours = TRUE
    /\ cycles = 0
    /\ call = NoCall
    /\ inFlight = NoneInFlight

\* Both paths are given one snapshot.
SameSnapshot ==
    /\ running = "both paths"
    /\ call = NoCall
    /\ \E indicators \in ParitySnapshots :
         /\ decision' = MakeRealTimeDecision(indicators, TRUE)
         /\ bt' = BtBody(RowOf(indicators))
         /\ call' = [ fn |-> "compare",
                      live |-> LiveAction(decision'),
                      backtest |-> RowAction(bt, bt') ]
    /\ UNCHANGED <<running, currentState, marketHours, cycles, inFlight>>

NextParity == SameSnapshot

SpecParity == InitParity /\ [][NextParity]_vars

\* C23: on the same snapshot, position and thresholds the loop body of the
\* backtest takes the action makeRealTimeDecision returns.
C23_SameAction ==
    call.fn = "compare" => call.live = call.backtest


\* One cycle of either program starting from a leveraged holding ends in the
\* same proxy or in the safe ETF, and a backtest row pushes no records or
\* the SELL and BUY of one change.
C24_Step ==
    /\ (Live /\ IsLeveragedEtf(currentState.position))
          => currentState'.position \in {currentState.position, safeEtf}
    /\ (Backtest /\ IsLeveragedEtf(bt.currentPosition))
          => bt'.currentPosition \in {bt.currentPosition, safeEtf}
    /\ Backtest => Len(bt'.trades) - Len(bt.trades) \in {0, 2}

AppliedDecisions ==
    { [ decision |-> action, reason |-> "", targetSymbol |-> symbol,
        confidence |-> RatInt(1), indicators |-> indicators ] :
        action \in {"BUY", "SELL", "HOLD"},
        symbol \in {safeEtf, longLeveragedEtf, shortLeveragedEtf},
        indicators \in GuardSnapshots }

InitUpdate ==
    /\ running = "updatePortfolioState"
    /\ currentState \in SavedStates
    /\ decision = NoDecision
    /\ marketHours = TRUE
    /\ cycles = 0
    /\ bt = BtIdle
    /\ call = NoCall
    /\ inFlight = NoneInFlight

\* updatePortfolioState(dec); the state it was called in is kept in call.
ApplyDecision ==
    /\ running = "updatePortfolioState"
    /\ call = NoCall
    /\ \E dec \in AppliedDecisions :
         /\ decision' = dec
         /\ currentState' = UpdatePortfolioState(dec)
    /\ call' = [fn |-> "updatePortfolioState", before |-> currentState]
    /\ UNCHANGED <<running, marketHours, cycles, bt, inFlight>>

NextUpdate == ApplyDecision

SpecUpdate == InitUpdate /\ [][NextUpdate]_vars

\* updatePortfolioState left the holding as it was before the call.
HoldingKept ==
    /\ currentState.position = call.before.position
    /\ currentState.positionShares = call.before.positionShares
    /\ currentState.entryPrice = call.before.entryPrice
    /\ currentState.isLeveragedPosition = call.before.isLeveragedPosition

\* C26: a HOLD leaves the held instrument, the share count, the entry price
\* and the leveraged flag as they were and adds exactly 1 to daysInPosition;
\* a BUY of the instrument already held changes none of these fields.
C26_HoldFrame ==
    call.fn = "updatePortfolioState" =>
        /\ decision.decision = "HOLD"
             => /\ HoldingKept
                /\ currentState.daysInPosition
                     = call.before.daysInPosition + 1
        /\ (decision.decision = "BUY"
              /\ decision.targetSymbol = call.before.position)
             => /\ HoldingKept
                /\ currentState.daysInPosition = call.before.daysInPosition

\* A BUY of the long proxy was applied while the long proxy was held.
C26_Witness ==
    /\ call.fn = "updatePortfolioState"
    /\ decision.decision = "BUY"
    /\ decision.targetSymbol = longLeveragedEtf
    /\ call.before.position = longLeveragedEtf
    /\ call.before.daysInPosition = 9


\* C27: every row calculateIndicators returns carries the oscillator, the
\* two moving averages and the trend strength computed over the window that
\* ends at the row itself.
C27_WindowsEndAtRow ==
    (call.fn = "indicators" /\ call.program = "backtest"
       /\ call.result.threw = "")
      => \A k \in DOMAIN call.result.rows :
           LET d == call.result.rows[k] IN
           /\ d.windowEnds.rsi = d.index
           /\ d.windowEnds.sma50 = d.index
           /\ d.windowEnds.sma200 = d.index
           /\ d.windowEnds.adx = d.index


\* Cycle i passes from its report to updatePortfolioState in this step.
Applies(i) ==
    /\ i \in DOMAIN inFlight
    /\ inFlight[i].pc = "reporting"
    /\ inFlight'[i].pc = "saving"

\* No SELL is applied to a holding that is already the safe ETF.
C28_Step ==
    running \in Modes =>
        \A i \in DOMAIN inFlight :
           (Applies(i) /\ inFlight[i].decision.decision = "SELL")
              => currentState.position # safeEtf

\* C28: whatever the interleaving of live cycles, a SELL is applied only to
\* the leveraged holding it was decided for, never to a holding that is
\* already the safe ETF: one leveraged holding is liquidated, and charged
\* its two transaction costs, at most once.
C28_SellAppliedOnce == [][C28_Step]_vars


\* C29: after initialize() has succeeded the rule set in force is the one
\* getAIHeuristics returned during that initialization, with or without a
\* persisted state file.
C29_FreshRulesInForce ==
    (running = "initialize" /\ call.returned = "true")
      => currentState.aiRules = call.rules


(***************************************************************************)
(* The quick single-shot check: getQuickTradeDecision sizes a technical    *)
(* BUY with calculatePositionSize and the advisory analysis.               *)
(***************************************************************************)
\* CONFIG of the quick check.
riskPerTrade == Rat(2, 100)
maxPositionSize == Rat(25, 100)
quickStopLossPercent == Rat(5, 100)
quickInitialCapital == RatInt(100000)

RatMul(a, b) == Rat(a.n * b.n, a.d * b.d)
RatDiv(a, b) == Rat(a.n * b.d, a.d * b.n)

\* Math.floor of a number.
Floor(a) == a.n \div a.d

\* calculatePositionSize(price, stopLossPercent, availableCapital,
\* riskAmount, aiAdjustment); an undefined aiAdjustment takes the default 1.
CalculatePositionSize(price, stopLossPercent, availableCapital, riskAmount, aiAdjustment) ==
    LET adjustment == IF aiAdjustment = <<>> THEN RatInt(1) ELSE aiAdjustment[1]
        stopLossAmount == RatMul(price, stopLossPercent)
        adjustedRiskAmount == RatMul(riskAmount, adjustment)
        maxShares == Floor(RatDiv(adjustedRiskAmount, stopLossAmount))
        positionValue == RatMulInt(price, maxShares)
        maxAllowedValue == RatMul(availableCapital, maxPositionSize)
    IN  IF RatGt(positionValue, maxAllowedValue)
        THEN Floor(RatDiv(maxAllowedValue, price))
        ELSE maxShares

\* The technical signal of the quick check: the oscillator alone.
TechnicalDecision(currentRsi) ==
    IF currentRsi < rsiOversold
    THEN [decision |-> "BUY", targetEtf |-> longLeveragedEtf]
    ELSE IF currentRsi > rsiOverbought
    THEN [decision |-> "BUY", targetEtf |-> shortLeveragedEtf]
    ELSE [decision |-> "HOLD", targetEtf |-> signalEtf]

\* riskAmount: 2% of the capital, 1% at risk level MEDIUM, 0.5% at HIGH.
RiskAmount(aiAnalysis) ==
    IF Field(aiAnalysis, "riskLevel") = <<"HIGH">>
    THEN RatMul(quickInitialCapital, Rat(5, 1000))
    ELSE IF Field(aiAnalysis, "riskLevel") = <<"MEDIUM">>
    THEN RatMul(quickInitialCapital, Rat(1, 100))
    ELSE RatMul(quickInitialCapital, riskPerTrade)

\* The final decision object of getQuickTradeDecision for the latest
\* oscillator value and QQQ close and the object getAIAnalysis returned.
GetQuickTradeDecision(currentRsi, currentPrice, aiAnalysis) ==
    LET technical == TechnicalDecision(currentRsi)
        agreement == Truthy(Field(aiAnalysis, "agreement"))
        aiAdjustment == Field(aiAnalysis, "positionSizeAdjustment")
        shares == IF technical.decision = "BUY" /\ agreement
                  THEN CalculatePositionSize(currentPrice, quickStopLossPercent,
                                             quickInitialCapital,
                                             RiskAmount(aiAnalysis), aiAdjustment)
                  ELSE 0
    IN  [ decision |-> IF technical.decision = "BUY" /\ ~agreement
                       THEN "HOLD" ELSE technical.decision,
          targetEtf |-> technical.targetEtf,
          shares |-> shares,
          positionValue |-> RatMulInt(currentPrice, shares) ]

\* A full advisory answer, and the answers parsed from the model's text:
\* any subset of the fields the prompt asks for.
FullAnalyses ==
    { [agreement |-> a, riskLevel |-> r, positionSizeAdjustment |-> s] :
        a \in BOOLEAN, r \in {"LOW", "MEDIUM", "HIGH"},
        s \in {Rat(-1, 2), RatInt(0), Rat(3, 4), RatInt(1), RatInt(75)} }

ParsedAnalyses ==
    { Restrict(full, keep) :
        full \in FullAnalyses,
        keep \in SUBSET {"agreement", "riskLevel", "positionSizeAdjustment"} }

\* Latest QQQ closes.
QuickPrices == {RatInt(100), RatInt(400), Rat(80125, 100)}

InitQuick ==
    /\ running = "quick check"
    /\ call \in { [ fn |-> "getQuickTradeDecision", currentRsi |-> rsi,
                    currentPrice |-> price, aiAnalysis |-> analysis,
                    finalDecision |-> <<>> ] :
                  rsi \in {5, 50, 95}, price \in QuickPrices,
                  analysis \in ParsedAnalyses }
    /\ currentState = InitialState(PromptRules)
    /\ decision = NoDecision
    /\ marketHours = TRUE
    /\ cycles = 0
    /\ bt = BtIdle
    /\ inFlight = NoneInFlight

\* getQuickTradeDecision from the technical signal on.
QuickDecide ==
    /\ running = "quick check"
    /\ call.finalDecision = <<>>
    /\ call' = [call EXCEPT
                  !.finalDecision =
                      GetQuickTradeDecision(call.currentRsi, call.currentPrice,
                                            call.aiAnalysis)]
    /\ UNCHANGED <<running, currentState, decision, marketHours, cycles, bt,
                   inFlight>>

NextQuick == QuickDecide

SpecQuick == InitQuick /\ [][NextQuick]_vars

\* C30: the final decision of the quick check is BUY only if the technical
\* signal was BUY and the advisory answer agreed, and every final BUY
\* recommends a whole number of shares that is not negative and costs no
\* more than maxPositionSize of the initial capital.
C30_QuickBuyBounded ==
    (running = "quick check" /\ call.finalDecision # <<>>
       /\ call.finalDecision.decision = "BUY")
      => /\ TechnicalDecision(call.currentRsi).decision = "BUY"
         /\ Field(call.aiAnalysis, "agreement") = <<TRUE>>
         /\ call.finalDecision.shares >= 0
         /\ RatLeq(RatMulInt(call.currentPrice, call.finalDecision.shares),
                   RatMul(quickInitialCapital, maxPositionSize))

====
